---- MODULE Spec2Model ----
(***************************************************************************)
(* Model of the finite-automaton diagram generator (Generator component).  *)
(* One run of generate() is followed from the input fields to the emitted  *)
(* list of node and edge declarations: transition table, grid layout       *)
(* search, edge routing.                                                   *)
(*                                                                         *)
(* Representation                                                          *)
(*  - a state name and a symbol are strings;                               *)
(*  - a string that is split at commas (a symbol key of the table) is the  *)
(*    non-empty sequence of its comma-free pieces, so that join(',') and   *)
(*    split(',') are modelled by what they do on the pieces;               *)
(*  - arrays are sequences (index i of the code is index i+1 here), grid   *)
(*    coordinates [row, col] keep the 0-based values of the code;          *)
(*  - a JavaScript object is a function whose DOMAIN is its key set.       *)
(***************************************************************************)
EXTENDS Integers, Sequences, FiniteSets, TLC

VARIABLES statesArray, initialState, acceptingStatesArray, transitionsList,
          acceptingBy, pc, transitionsObj, page, sizeIndex, bestGrid, minCost,
          optimalStatePlacement, bendDirectionArray, fromIndex, toIndex,
          code, tikzCode,
          call, returned,
          fieldValues, generateTimers, nextHandler, generatedFrom,
          renderTimers, nextRender, locationSearch, edits, rendered, effects

vars == <<statesArray, initialState, acceptingStatesArray, transitionsList,
          acceptingBy, pc, transitionsObj, page, sizeIndex, bestGrid, minCost,
          optimalStatePlacement, bendDirectionArray, fromIndex, toIndex,
          code, tikzCode,
          call, returned,
          fieldValues, generateTimers, nextHandler, generatedFrom,
          renderTimers, nextRender, locationSearch, edits, rendered, effects>>

\* a single call of a helper function: its arguments and its return value
harness == <<call, returned>>

\* the synchronisation with the URL: the pending timers of the render
\* effect, the handle of its last timer, location.search, and the values the
\* user has typed into the fields, oldest first; the values the last render
\* saw and the effects of that render that have not run
url == <<renderTimers, nextRender, locationSearch, edits, rendered, effects>>

\* the component: the values of its useState fields, the pending timers of
\* the generate effect, the next timer handle, and the field values the
\* last generate() ran on
ui == <<fieldValues, generateTimers, nextHandler, generatedFrom, url>>

\* the local variables of findOptimalStatePlacement
search == <<sizeIndex, bestGrid, minCost>>

inputs == <<statesArray, initialState, acceptingStatesArray, transitionsList,
            acceptingBy>>

-----------------------------------------------------------------------------
(* Bounds of the explored inputs *)

\* largest number of declared states
MaxStates == 3
\* largest number of transition records in the transitions field
MaxRecords == 3

\* largest number of rows and of columns of a grid handed to a helper
\* function on its own
MaxSide == 3

\* largest number of declared states in the runs on the scenario records
MaxScenarioStates == 2

\* largest state count getPossibleGridSizes is called with on its own
MaxCount == 60

\* names the declared states are taken from, in list order
NameSeq == <<"q1", "q2", "q3", "q4", "q5", "q6">>

\* the state list: the first k names
StateList(k) == SubSeq(NameSeq, 1, k)

\* a name that is never declared
UnknownName == "q9"

\* The records a transitions field is built from, each the trimmed parts of
\* one ';'-separated line split at ','.
RecordSeq ==
  << <<"q1", "0", "q1">>,            \* self-loop
     <<"q1", "0", "q2">>,            \* same source and symbol, other destination
     <<"q2", "0", "1", "q1">>,       \* two symbols; makes q1, q2 mutual
     <<"q2", "1", "q3">>,
     <<"q1", "1", "q3">>,
     <<"q3", "q1">> >>               \* no symbol; makes q1, q3 mutual

\* further records for the transition table alone
TableRecordSeq ==
  RecordSeq \o
  << <<"q1", "0", "1", "q2">>,       \* a pair declared again with more symbols
     <<"q3", "1", "q2">>,
     <<"q2">>,                       \* a single field
     <<"q1", "1", UnknownName>>,     \* undeclared destination
     <<"q1", "2", "q2">>,
     <<"__proto__", "0", "q2">>,     \* stored on Object.prototype under '0'
     <<"__proto__", "q1", "q2">>,    \* stored on Object.prototype under 'q1'
     <<"toString", "keys", "q1">>,   \* stored on Object.prototype.toString
     <<"toString", "name", "q1">>,   \* the name of a function is a string
     <<"q1", "0", "q3">> >>          \* after the records that store on
                                     \* Object.prototype

\* the records of the runs on a page whose Object.prototype holds keys
PrototypeRecordSeq ==
  << <<"q1", "1", "q2">>,
     <<"q2", "1", "q2">>,
     <<"q1", "1", "q1">>,
     <<"q1", "1", "q3">>,
     <<"q3", "0", "1", "q2">>,
     <<"q2", "0", "q1">>,            \* makes q1, q2 mutual
     <<"__proto__", "0", "q2">>,     \* a symbol '0' to q2 for every source
     <<"__proto__", "0", "q1">>,
     <<"__proto__", "q1", "q2">>,    \* an array where the row of q1 is looked up
     <<"__proto__", UnknownName, "q2">>,
     <<"toString", "name", "q1">> >> \* throws in createTransitions

\* the records of the layout searches on such a page
PlacementRecordSeq ==
  << <<"q2", "0", "1", "q1">>,       \* two symbols
     <<"q1", "0", "q1">>,
     <<"__proto__", "0", "q2">>,     \* a destination q2 for every source
     <<"__proto__", UnknownName, "q2">>,  \* a source that has no position
     <<"q1", "1", "toString">> >>    \* a destination that objects inherit

\* the records of the documented scenarios
ScenarioRecordSeq ==
  << <<"q1", "0", "1", "q1">>,       \* self-loop with two symbols
     <<"q1", "0", "q1">>,
     <<"q1", "1", "q2">>,
     <<"q1", "0", "q2">>,
     <<"q2", "0", "q1">>,            \* 2-cycle with the record before
     <<"q1", "0", "1", "q2">> >>     \* a pair declared again with more symbols

\* the subsequence of s at the index set S, in increasing index order
RECURSIVE Pick(_, _, _)
Pick(s, S, i) ==
  IF i > Len(s) THEN <<>>
  ELSE (IF i \in S THEN <<s[i]>> ELSE <<>>) \o Pick(s, S, i + 1)

\* the lists of at most MaxRecords records of s, in the order of s
ListsOf(s) ==
  { Pick(s, S, 1) :
      S \in { T \in SUBSET (1 .. Len(s)) : Cardinality(T) <= MaxRecords } }

RecordLists == ListsOf(RecordSeq)

TableRecordLists == ListsOf(TableRecordSeq)

ScenarioRecordLists == ListsOf(ScenarioRecordSeq)

PrototypeRecordLists == ListsOf(PrototypeRecordSeq)

PlacementRecordLists == ListsOf(PlacementRecordSeq)

-----------------------------------------------------------------------------
(* JavaScript values *)

\* the null cell of a grid
null == "null"

\* an object without keys
EmptyObject == [k \in {} |-> <<>>]

\* Number.POSITIVE_INFINITY of minCost: no cost, which is never negative,
\* is below it
Infinity == -1

\* Properties that every object inherits from Object.prototype: a lookup
\* of such a name on an object without an own property of that name yields
\* the inherited value, which is truthy and is not an array
ObjectPrototype ==
  {"constructor", "toString", "toLocaleString", "valueOf", "hasOwnProperty",
   "isPrototypeOf", "propertyIsEnumerable", "__proto__", "__defineGetter__",
   "__defineSetter__", "__lookupGetter__", "__lookupSetter__"}

Abs(x) == IF x < 0 THEN -x ELSE x
Min(a, b) == IF a <= b THEN a ELSE b
Max(a, b) == IF a >= b THEN a ELSE b

\* Array.prototype.join(','): the joined string, as its comma-free pieces.
\* The empty array joins to the empty string, whose only piece is "".
join(symbols) == IF Len(symbols) = 0 THEN <<"">> ELSE symbols

\* String.prototype.split(','): the pieces of the string
split(key) == key

\* The symbols in UTF-16 code unit order, the order of Array.prototype.sort()
SymbolOrder ==
  <<"", "0", "1", "2", "3", "4", "5", "6", "7", "8", "9",
    "__defineGetter__", "__defineSetter__", "__lookupGetter__",
    "__lookupSetter__", "__proto__", "apply", "arguments", "bind",
    "call", "caller", "constructor", "hasOwnProperty", "isPrototypeOf",
    "keys", "length", "name", "propertyIsEnumerable", "prototype",
    "push", "q", "q1", "q2", "q3", "q4", "q5", "q6", "q9",
    "toLocaleString", "toString", "undefined", "valueOf">>

\* the characters of these strings, which `for ... of` visits
Characters ==
  ("" :> <<>>) @@
  ("0" :> <<"0">>) @@
  ("1" :> <<"1">>) @@
  ("2" :> <<"2">>) @@
  ("3" :> <<"3">>) @@
  ("4" :> <<"4">>) @@
  ("5" :> <<"5">>) @@
  ("6" :> <<"6">>) @@
  ("7" :> <<"7">>) @@
  ("8" :> <<"8">>) @@
  ("9" :> <<"9">>) @@
  ("__defineGetter__" :> <<"_", "_", "d", "e", "f", "i", "n", "e", "G", "e", "t", "t", "e", "r", "_", "_">>) @@
  ("__defineSetter__" :> <<"_", "_", "d", "e", "f", "i", "n", "e", "S", "e", "t", "t", "e", "r", "_", "_">>) @@
  ("__lookupGetter__" :> <<"_", "_", "l", "o", "o", "k", "u", "p", "G", "e", "t", "t", "e", "r", "_", "_">>) @@
  ("__lookupSetter__" :> <<"_", "_", "l", "o", "o", "k", "u", "p", "S", "e", "t", "t", "e", "r", "_", "_">>) @@
  ("__proto__" :> <<"_", "_", "p", "r", "o", "t", "o", "_", "_">>) @@
  ("apply" :> <<"a", "p", "p", "l", "y">>) @@
  ("arguments" :> <<"a", "r", "g", "u", "m", "e", "n", "t", "s">>) @@
  ("bind" :> <<"b", "i", "n", "d">>) @@
  ("call" :> <<"c", "a", "l", "l">>) @@
  ("caller" :> <<"c", "a", "l", "l", "e", "r">>) @@
  ("constructor" :> <<"c", "o", "n", "s", "t", "r", "u", "c", "t", "o", "r">>) @@
  ("hasOwnProperty" :> <<"h", "a", "s", "O", "w", "n", "P", "r", "o", "p", "e", "r", "t", "y">>) @@
  ("isPrototypeOf" :> <<"i", "s", "P", "r", "o", "t", "o", "t", "y", "p", "e", "O", "f">>) @@
  ("keys" :> <<"k", "e", "y", "s">>) @@
  ("length" :> <<"l", "e", "n", "g", "t", "h">>) @@
  ("name" :> <<"n", "a", "m", "e">>) @@
  ("propertyIsEnumerable" :> <<"p", "r", "o", "p", "e", "r", "t", "y", "I", "s", "E", "n", "u", "m", "e", "r", "a", "b", "l", "e">>) @@
  ("prototype" :> <<"p", "r", "o", "t", "o", "t", "y", "p", "e">>) @@
  ("push" :> <<"p", "u", "s", "h">>) @@
  ("q" :> <<"q">>) @@
  ("q1" :> <<"q", "1">>) @@
  ("q2" :> <<"q", "2">>) @@
  ("q3" :> <<"q", "3">>) @@
  ("q4" :> <<"q", "4">>) @@
  ("q5" :> <<"q", "5">>) @@
  ("q6" :> <<"q", "6">>) @@
  ("q9" :> <<"q", "9">>) @@
  ("toLocaleString" :> <<"t", "o", "L", "o", "c", "a", "l", "e", "S", "t", "r", "i", "n", "g">>) @@
  ("toString" :> <<"t", "o", "S", "t", "r", "i", "n", "g">>) @@
  ("undefined" :> <<"u", "n", "d", "e", "f", "i", "n", "e", "d">>) @@
  ("valueOf" :> <<"v", "a", "l", "u", "e", "O", "f">>)

\* the result of arithmetic on a value that is no number
NaN == -2

CodeUnitRank(s) == CHOOSE i \in 1 .. Len(SymbolOrder) : SymbolOrder[i] = s

\* Array.prototype.sort() without comparator
RECURSIVE sort(_)
sort(arr) ==
  IF Len(arr) <= 1 THEN arr
  ELSE LET m == CHOOSE i \in 1 .. Len(arr) :
                  \A j \in 1 .. Len(arr) :
                     /\ CodeUnitRank(arr[i]) <= CodeUnitRank(arr[j])
                     /\ (CodeUnitRank(arr[i]) = CodeUnitRank(arr[j]) => i <= j)
       IN <<arr[m]>> \o sort(SubSeq(arr, 1, m - 1) \o SubSeq(arr, m + 1, Len(arr)))

-----------------------------------------------------------------------------
(* Objects of the page *)

\* The lookups transitions[fromState] and transitions[fromState][key] of
\* createTransitions follow the prototype chain, so a record can store on
\* objects that the table only inherits from. These objects are shared by
\* every object of the page and outlive the call:
\*   prototype       the enumerable properties stored on Object.prototype,
\*                   by a record whose source is '__proto__'; the key is
\*                   the joined symbols, the value an array with
\*                   items   its elements: Str(x), Arr(seq) or Hole
\*                   props   its further own properties, each an array of
\*                           strings
\*   functions       for the name of a property of Object.prototype, the
\*                   arrays stored on its value: on the function
\*                   Object.prototype.toString for 'toString', on Object
\*                   for 'constructor'
\*   arrayPrototype  the elements pushed onto Array.prototype
\* A heap is the page together with the table (the own keys of the object
\* literal of one call). Strings are those of SymbolOrder.
EmptyPage ==
  [prototype |-> EmptyObject, functions |-> EmptyObject, arrayPrototype |-> <<>>]

Heap(table, pg) ==
  [table |-> table, prototype |-> pg.prototype, functions |-> pg.functions,
   arrayPrototype |-> pg.arrayPrototype]

PageOf(heap) ==
  [prototype |-> heap.prototype, functions |-> heap.functions,
   arrayPrototype |-> heap.arrayPrototype]

EmptyHeap == Heap(EmptyObject, EmptyPage)

\* obj[name] = value
Put(obj, name, value) == (name :> value) @@ obj

\* the values a lookup yields: a string, an array of strings, the array
\* stored on Object.prototype under a key, a number, undefined; and the
\* missing element of an array
Str(x) == [s |-> x]
Arr(seq) == [a |-> seq]
Ref(key) == [ref |-> key]
Num(k) == [n |-> k]
undefined == [undefined |-> TRUE]
Hole == [hole |-> TRUE]

IsStr(v) == DOMAIN v = {"s"}
IsArr(v) == DOMAIN v = {"a"}
IsRef(v) == DOMAIN v = {"ref"}
IsNum(v) == DOMAIN v = {"n"}

\* own properties of every function, and those it inherits from
\* Function.prototype besides the names of Object.prototype
FunctionProperties ==
  {"length", "name", "arguments", "caller", "apply", "bind", "call"}

\* own properties of Object besides those of every function
ObjectProperties ==
  {"prototype", "assign", "create", "defineProperties", "defineProperty",
   "entries", "freeze", "fromEntries", "getOwnPropertyDescriptor",
   "getOwnPropertyDescriptors", "getOwnPropertyNames",
   "getOwnPropertySymbols", "getPrototypeOf", "groupBy", "hasOwn", "is",
   "isExtensible", "isFrozen", "isSealed", "keys", "preventExtensions",
   "seal", "setPrototypeOf", "values"}

\* properties of Array.prototype besides the names of Object.prototype
ArrayProperties ==
  {"at", "concat", "copyWithin", "entries", "every", "fill", "filter",
   "find", "findIndex", "findLast", "findLastIndex", "flat", "flatMap",
   "forEach", "includes", "indexOf", "join", "keys", "lastIndexOf", "map",
   "pop", "push", "reduce", "reduceRight", "reverse", "shift", "slice",
   "some", "sort", "splice", "toReversed", "toSorted", "toSpliced",
   "unshift", "values", "with"}

\* the joined symbol key names a property of Object.prototype
InheritedKey(key) == Len(key) = 1 /\ key[1] \in ObjectPrototype

\* the key is an array index: the canonical decimal string of a number
IsIndex(key) == Len(key) = 1 /\ \E i \in 0 .. 99 : ToString(i) = key[1]

ArrayIndex(key) == CHOOSE i \in 0 .. 99 : ToString(i) = key[1]

IndexName(i) == ToString(i)

\* Number(x) of a string: 0 for the empty string, the number for a decimal
\* string, NaN for the other strings
NumberOf(x) ==
  IF x = "" THEN 0 ELSE IF IsIndex(<<x>>) THEN ArrayIndex(<<x>>) ELSE NaN

\* a + b and |a - b| of numbers
Plus(a, b) == IF a = NaN \/ b = NaN THEN NaN ELSE a + b

AbsDiff(a, b) == IF a = NaN \/ b = NaN THEN NaN ELSE Abs(a - b)

\* String.prototype.includes: x is a substring of s
IsSubstring(x, s) ==
  LET cs == Characters[s]
      cx == Characters[x]
  IN \E o \in 0 .. Len(cs) - Len(cx) : SubSeq(cs, o + 1, o + Len(cx)) = cx

\* What transitions[name] yields, for a string without comma:
\*   "row"               the own key of the table
\*   "Object.prototype"  for '__proto__'
\*   "Object"            for 'constructor'
\*   "function"          for the other properties of Object.prototype
\*   "array"             the array stored on Object.prototype under name
\*   "undefined"
Holder(heap, name) ==
  IF name \in DOMAIN heap.table THEN "row"
  ELSE IF name = "__proto__" THEN "Object.prototype"
  ELSE IF name = "constructor" THEN "Object"
  ELSE IF name \in ObjectPrototype THEN "function"
  ELSE IF <<name>> \in DOMAIN heap.prototype THEN "array"
  ELSE "undefined"

\* how the operators below name a holder: a row, a function and Object by
\* the string, an array of the page by its key on Object.prototype
At(kind, name) == IF kind = "array" THEN <<name>> ELSE name

\* the properties an object of the kind has or inherits before anything is
\* stored: none of them is an array, so push on its value is not a
\* function, or it is falsy and cannot be assigned
Builtin(kind) ==
  CASE kind = "row" -> ObjectPrototype
    [] kind = "Object.prototype" -> ObjectPrototype
    [] kind = "function" -> FunctionProperties \cup ObjectPrototype
    [] kind = "Object" -> ObjectProperties \cup FunctionProperties \cup ObjectPrototype
    [] kind = "array" -> {"length"} \cup ArrayProperties \cup ObjectPrototype

\* the arrays stored on the function or on Object
StoredOn(heap, name) ==
  IF name \in DOMAIN heap.functions THEN heap.functions[name] ELSE EmptyObject

\* the element i of an array of the page, found on its prototypes when the
\* array has none: on Array.prototype, then on Object.prototype
InheritedAt(heap, i) ==
  IF i < Len(heap.arrayPrototype) THEN Str(heap.arrayPrototype[i + 1])
  ELSE IF <<IndexName(i)>> \in DOMAIN heap.prototype THEN Ref(<<IndexName(i)>>)
  ELSE undefined

\* the array has its own element i
HasItem(items, i) == i < Len(items) /\ items[i + 1] # Hole

\* What the lookup transitions[name][key] of lines 256 and 259 finds, for
\* a holder of the given kind:
\*   "own"              an array of the holder itself
\*   "inherited"        the array stored on Object.prototype under key
\*   "Array.prototype"  for '__proto__' on an array
\*   "absent"           nothing or a falsy value that can be replaced:
\*                      line 257 stores an empty array on the holder
\*   "TypeError"        a truthy value that is no array, so that push is
\*                      not a function, or a falsy value that line 257
\*                      cannot replace
Slot(heap, kind, name, key) ==
  LET builtin == Len(key) = 1 /\ key[1] \in Builtin(kind)
      stored == key \in DOMAIN heap.prototype
  IN CASE kind = "row" ->
            IF key \in DOMAIN heap.table[name] THEN "own"
            ELSE IF builtin THEN "TypeError"
            ELSE IF stored THEN "inherited" ELSE "absent"
       [] kind = "Object.prototype" ->
            IF stored THEN "own"
            ELSE IF builtin THEN "TypeError" ELSE "absent"
       [] kind \in {"function", "Object"} ->
            IF key \in DOMAIN StoredOn(heap, name) THEN "own"
            ELSE IF builtin THEN "TypeError"
            ELSE IF stored THEN "inherited" ELSE "absent"
       [] kind = "array" ->
            LET array == heap.prototype[name]
            IN IF IsIndex(key)
               THEN LET i == ArrayIndex(key)
                        found == IF HasItem(array.items, i) THEN array.items[i + 1]
                                 ELSE InheritedAt(heap, i)
                    IN IF IsStr(found)
                       THEN (IF found.s = "" THEN "absent" ELSE "TypeError")
                       ELSE IF HasItem(array.items, i) THEN "own"
                       ELSE IF IsRef(found) THEN "inherited" ELSE "absent"
               ELSE IF key \in DOMAIN array.props THEN "own"
               ELSE IF key = <<"__proto__">> THEN "Array.prototype"
               ELSE IF builtin THEN "TypeError"
               ELSE IF stored THEN "inherited" ELSE "absent"

\* the enumerable properties of a holder, own and inherited, that
\* `for (const symbol in transitions[fromState])` visits
Keys(heap, kind, name) ==
  CASE kind = "row" -> DOMAIN heap.table[name] \cup DOMAIN heap.prototype
    [] kind = "Object.prototype" -> DOMAIN heap.prototype
    [] kind \in {"function", "Object"} ->
         DOMAIN StoredOn(heap, name) \cup DOMAIN heap.prototype
    [] kind = "array" ->
         LET array == heap.prototype[name]
         IN { <<IndexName(i)>> : i \in { j \in 0 .. Len(array.items) - 1 :
                                          HasItem(array.items, j) } }
              \cup DOMAIN array.props
              \cup { <<IndexName(i)>> : i \in 0 .. Len(heap.arrayPrototype) - 1 }
              \cup DOMAIN heap.prototype

\* transitions[fromState][symbol] for a key that Keys lists
ValueAt(heap, kind, name, key) ==
  CASE kind = "row" ->
         IF key \in DOMAIN heap.table[name] THEN Arr(heap.table[name][key])
         ELSE Ref(key)
    [] kind = "Object.prototype" -> Ref(key)
    [] kind \in {"function", "Object"} ->
         IF key \in DOMAIN StoredOn(heap, name) THEN Arr(StoredOn(heap, name)[key])
         ELSE Ref(key)
    [] kind = "array" ->
         LET array == heap.prototype[name]
         IN IF IsIndex(key) /\ HasItem(array.items, ArrayIndex(key))
            THEN array.items[ArrayIndex(key) + 1]
            ELSE IF key \in DOMAIN array.props THEN Arr(array.props[key])
            ELSE IF IsIndex(key) /\ ArrayIndex(key) < Len(heap.arrayPrototype)
            THEN Str(heap.arrayPrototype[ArrayIndex(key) + 1])
            ELSE Ref(key)

\* the values that `for (const toState of value)` and value.includes visit:
\* the elements of an array, with those an array of the page inherits
\* where it has none, and the characters of a string
Elements(heap, value) ==
  IF IsArr(value) THEN [i \in 1 .. Len(value.a) |-> Str(value.a[i])]
  ELSE IF IsStr(value)
  THEN [i \in 1 .. Len(Characters[value.s]) |-> Str(Characters[value.s][i])]
  ELSE LET items == heap.prototype[value.ref].items
       IN [i \in 1 .. Len(items) |->
             IF items[i] = Hole THEN InheritedAt(heap, i - 1) ELSE items[i]]

\* String(value), as its comma-free pieces: an array is joined with ',',
\* an undefined element and an array met again inside itself give ''
RECURSIVE Pieces(_, _, _)
RECURSIVE PiecesFrom(_, _, _, _)
PiecesFrom(heap, elements, i, seen) ==
  IF i > Len(elements) THEN <<>>
  ELSE Pieces(heap, elements[i], seen) \o PiecesFrom(heap, elements, i + 1, seen)

Pieces(heap, value, seen) ==
  IF IsStr(value) THEN <<value.s>>
  ELSE IF IsArr(value) THEN join(value.a)
  ELSE IF IsRef(value)
  THEN (IF value.ref \in seen THEN <<"">>
        ELSE PiecesFrom(heap, Elements(heap, value), 1, seen \cup {value.ref}))
  ELSE <<"">>

\* the property key a value is used as
ToKey(heap, value) ==
  IF IsStr(value) THEN <<value.s>>
  ELSE IF value = undefined THEN <<"undefined">>
  ELSE Pieces(heap, value, {})

\* Number(value)
ToNumber(heap, value) ==
  IF IsNum(value) THEN value.n
  ELSE IF value = undefined THEN NaN
  ELSE LET pieces == Pieces(heap, value, {})
       IN IF Len(pieces) = 1 THEN NumberOf(pieces[1]) ELSE NaN

-----------------------------------------------------------------------------
(* Transition table *)

\* an array that takes a destination in front of those it holds
push_Prepend(arr, toState) == <<toState>> \o arr

\* an array that keeps only the last destination
push_Overwrite(arr, toState) == <<toState>>

\* Array.prototype.push
push(arr, toState) == Append(arr, toState)

\* source and destination of a record: its first and its last field; a
\* record of a single field has the empty destination
RecordSource(parts) == parts[1]

RecordDestination(parts) == IF Len(parts) >= 2 THEN parts[Len(parts)] ELSE ""

\* the symbols of a record: its fields between the first and the last
RecordSymbols(parts) == SubSeq(parts, 2, Len(parts) - 1)

\* the symbol key of a record, as the pieces of the joined string
RecordKey(parts) == join(RecordSymbols(parts))

\* obj[key].push(toState), after obj[key] = [] when the key is missing
Store(obj, key, toState) ==
  IF key \in DOMAIN obj THEN [obj EXCEPT ![key] = push(@, toState)]
  ELSE Put(obj, key, push(<<>>, toState))

\* items[i] = value of an array: the elements between its end and i are
\* missing
SetItem(items, i, value) ==
  [j \in 1 .. Max(Len(items), i + 1) |->
     IF j = i + 1 THEN value ELSE IF j <= Len(items) THEN items[j] ELSE Hole]

\* lines 253-255: the row of the source is made unless transitions[fromState]
\* is truthy, which an inherited value is as well
WithRow(heap, fromState) ==
  IF Holder(heap, fromState) = "undefined"
  THEN [heap EXCEPT !.table = Put(@, fromState, EmptyObject)]
  ELSE heap

\* a forEach body that never throws
recordThrows_Never(heap, parts) == FALSE

\* the body of transitionsList.forEach throws a TypeError for the record
\* at line 257 or 259: see Slot
recordThrows(heap, parts) ==
  LET h == WithRow(heap, RecordSource(parts))
      kind == Holder(h, RecordSource(parts))
  IN Slot(h, kind, At(kind, RecordSource(parts)), RecordKey(parts)) = "TypeError"

\* the body of transitionsList.forEach for one record: the heap after it.
\* The destination is pushed onto the array that the lookup finds, own or
\* inherited, or onto a new array of the holder. When the body throws,
\* only the row of the source has been made.
addRecord(heap, parts) ==
  LET fromState == RecordSource(parts)
      toState == RecordDestination(parts)
      key == RecordKey(parts)
      h == WithRow(heap, fromState)
      kind == Holder(h, fromState)
      at == At(kind, fromState)
      slot == Slot(h, kind, at, key)
  IN CASE slot = "TypeError" -> h
       [] slot = "inherited" ->
            [h EXCEPT !.prototype[key].items = push(@, Str(toState))]
       [] slot = "Array.prototype" ->
            [h EXCEPT !.arrayPrototype = push(@, toState)]
       [] slot \in {"own", "absent"} ->
            CASE kind = "row" ->
                   [h EXCEPT !.table[fromState] = Store(@, key, toState)]
              [] kind \in {"function", "Object"} ->
                   [h EXCEPT !.functions =
                      Put(@, fromState, Store(StoredOn(h, fromState), key, toState))]
              [] kind = "Object.prototype" ->
                   IF slot = "own"
                   THEN [h EXCEPT !.prototype[key].items = push(@, Str(toState))]
                   ELSE [h EXCEPT !.prototype =
                           Put(@, key, [items |-> push(<<>>, Str(toState)),
                                        props |-> EmptyObject])]
              [] kind = "array" ->
                   IF ~ IsIndex(key)
                   THEN [h EXCEPT !.prototype[at].props = Store(@, key, toState)]
                   ELSE IF slot = "own"
                   THEN [h EXCEPT !.prototype[at].items[ArrayIndex(key) + 1] =
                           Arr(push(@.a, toState))]
                   ELSE [h EXCEPT !.prototype[at].items =
                           SetItem(@, ArrayIndex(key), Arr(push(<<>>, toState)))]

\* transitionsList.forEach from the record list[i] on: the heap when the
\* loop ends or is left by the exception
RECURSIVE createTransitionsFrom(_, _, _)
createTransitionsFrom(list, i, heap) ==
  IF i > Len(list) THEN heap
  ELSE IF recordThrows(heap, list[i]) THEN addRecord(heap, list[i])
  ELSE createTransitionsFrom(list, i + 1, addRecord(heap, list[i]))

\* the loop is left by the exception of one of the records list[i..]
RECURSIVE throwsFrom(_, _, _)
throwsFrom(list, i, heap) ==
  /\ i <= Len(list)
  /\ \/ recordThrows(heap, list[i])
     \/ throwsFrom(list, i + 1, addRecord(heap, list[i]))

\* createTransitions on a page on which nothing has been stored: it
\* throws; the table it returns; what it leaves on the page
createTransitionsThrows(list) == throwsFrom(list, 1, EmptyHeap)

createTransitions(list) == createTransitionsFrom(list, 1, EmptyHeap).table

storedOnInherited(list) == PageOf(createTransitionsFrom(list, 1, EmptyHeap))

\* transitions[s1][symbol].includes(s2): Array.prototype.includes for an
\* array, String.prototype.includes for a string
includes(heap, value, x) ==
  IF IsStr(value) THEN IsSubstring(x, value.s)
  ELSE IF IsArr(value) THEN \E i \in 1 .. Len(value.a) : value.a[i] = x
  ELSE LET elements == Elements(heap, value)
       IN \E i \in 1 .. Len(elements) : elements[i] = Str(x)

\* the pieces of the own keys of the row of s1 that list s2, flattened
RECURSIVE FlatSymbols(_, _, _, _)
FlatSymbols(transitions, s1, s2, keys) ==
  IF keys = {} THEN <<>>
  ELSE LET symbol == CHOOSE k \in keys : TRUE
       IN (IF \E i \in 1 .. Len(transitions.table[s1][symbol]) :
                 transitions.table[s1][symbol][i] = s2
           THEN split(symbol) ELSE <<>>)
          \o FlatSymbols(transitions, s1, s2, keys \ {symbol})

\* the same for keys that for-in visits on a value reached through the
\* prototype chain
RECURSIVE FlatStoredSymbols(_, _, _, _, _)
FlatStoredSymbols(transitions, kind, at, s2, keys) ==
  IF keys = {} THEN <<>>
  ELSE LET symbol == CHOOSE k \in keys : TRUE
       IN (IF includes(transitions, ValueAt(transitions, kind, at, symbol), s2)
           THEN split(symbol) ELSE <<>>)
          \o FlatStoredSymbols(transitions, kind, at, s2, keys \ {symbol})

\* checkTransition: the sorted symbols, or <<>> for the null the code
\* returns (it never returns an empty array). transitions is the heap of
\* the table: transitions[s1] is truthy for an inherited value as well,
\* and for-in visits the keys stored on Object.prototype with the own
\* ones. The order in which for-in visits the keys is immaterial: the
\* result is sorted.
checkTransition(transitions, s1, s2) ==
  LET kind == Holder(transitions, s1)
      symbols ==
        IF kind = "undefined" THEN <<>>
        ELSE IF kind = "row"
        THEN FlatSymbols(transitions, s1, s2, DOMAIN transitions.table[s1])
             \o FlatStoredSymbols(transitions, kind, s1, s2,
                                  DOMAIN transitions.prototype
                                    \ DOMAIN transitions.table[s1])
        ELSE FlatStoredSymbols(transitions, kind, At(kind, s1), s2,
                               Keys(transitions, kind, At(kind, s1)))
  IN IF Len(symbols) > 0 THEN sort(symbols) ELSE <<>>

\* truthiness of the result of checkTransition
Truthy(symbols) == symbols # <<>>

\* a degree that counts a single direction only from stateA to stateB
checkConnection_Forward(transitions, stateA, stateB) ==
  IF Truthy(checkTransition(transitions, stateA, stateB))
     /\ Truthy(checkTransition(transitions, stateB, stateA)) THEN 2
  ELSE IF Truthy(checkTransition(transitions, stateA, stateB)) THEN 1
  ELSE 0

checkConnection(transitions, stateA, stateB) ==
  IF Truthy(checkTransition(transitions, stateA, stateB))
     /\ Truthy(checkTransition(transitions, stateB, stateA)) THEN 2
  ELSE IF Truthy(checkTransition(transitions, stateA, stateB))
          \/ Truthy(checkTransition(transitions, stateB, stateA)) THEN 1
  ELSE 0

-----------------------------------------------------------------------------
(* Layout search *)

\* getPermutations: arr.flatMap((v, i) => permutations of the rest, v first)
RECURSIVE getPermutations(_)
RECURSIVE flatMapPermutations(_, _)
flatMapPermutations(arr, i) ==
  IF i > Len(arr) THEN <<>>
  ELSE LET rest == SubSeq(arr, 1, i - 1) \o SubSeq(arr, i + 1, Len(arr))
           sub  == getPermutations(rest)
       IN [p \in 1 .. Len(sub) |-> <<arr[i]>> \o sub[p]]
            \o flatMapPermutations(arr, i + 1)

getPermutations(arr) ==
  IF Len(arr) = 0 THEN << <<>> >> ELSE flatMapPermutations(arr, 1)

\* a shape test that admits a grid one cell short of the state count
FitsShape_OneShort(rows, cols, n) == rows * cols = n \/ rows * cols = n - 1

\* a shape test without the shapes that leave a cell empty
FitsShape_Exact(rows, cols, n) == rows * cols = n

\* a test that also lets shapes with two spare cells pass
FitsShape_TwoSpare(rows, cols, n) ==
  rows * cols = n \/ rows * cols = n + 1 \/ rows * cols = n + 2

\* the test of the inner loop of getPossibleGridSizes
FitsShape(rows, cols, n) == rows * cols = n \/ rows * cols = n + 1

\* getPossibleGridSizes: the pairs <<rows, cols>> in loop order
getPossibleGridSizes(n) ==
  LET all == [p \in 1 .. n * n |-> <<((p - 1) \div n) + 1, ((p - 1) % n) + 1>>]
      Keep(rc) == FitsShape(rc[1], rc[2], n)
  IN SelectSeq(all, Keep)

\* the grid of one candidate: perm placed row-wise, the other cells null
PlaceRowWise(perm, rows, cols) ==
  [r \in 1 .. rows |->
     [c \in 1 .. cols |->
        LET i == (r - 1) * cols + (c - 1)
        IN IF i < Len(perm) THEN perm[i + 1] ELSE null]]

\* statePositions of one candidate: state -> [row, col]
PositionsRowWise(perm, rows, cols) ==
  LET placed == { i \in 0 .. Len(perm) - 1 : i \div cols < rows }
  IN [s \in { perm[i + 1] : i \in placed } |->
        LET i == CHOOSE j \in placed :
                   /\ perm[j + 1] = s
                   /\ \A k \in placed : perm[k + 1] = s => k <= j
        IN <<i \div cols, i % cols>>]

\* row.findLastIndex(cell => cell !== null), 0-based, -1 if none
findLastIndex(row) ==
  LET occ == { c \in 0 .. Len(row) - 1 : row[c + 1] # null }
  IN IF occ = {} THEN -1 ELSE CHOOSE c \in occ : \A d \in occ : d <= c

\* an initial-state test that every grid passes
InitialInFirstColumn_Always(grid, initState) == TRUE

\* an initial-state test that accepts the state in any column
InitialInFirstColumn_AnyColumn(grid, initState) ==
  \E r \in 1 .. Len(grid) : \E c \in 1 .. Len(grid[r]) : grid[r][c] = initState

\* grid.some(row => row[0] === initState)
InitialInFirstColumn(grid, initState) ==
  \E r \in 1 .. Len(grid) : Len(grid[r]) > 0 /\ grid[r][1] = initState

\* grid.every(row => rightmost === -1 || acceptingStates.includes(row[rightmost]))
EveryRightmostAccepting(grid, acceptingStates) ==
  \A r \in 1 .. Len(grid) :
     LET rightmost == findLastIndex(grid[r])
     IN rightmost = -1 \/ grid[r][rightmost + 1] \in acceptingStates

\* grid.some(row => rightmost !== -1 && row.slice(0, rightmost).some(
\*   cell => acceptingStates.includes(cell) && cell !== initState))
SomeAcceptingBeforeRightmost(grid, initState, acceptingStates) ==
  \E r \in 1 .. Len(grid) :
     LET rightmost == findLastIndex(grid[r])
     IN /\ rightmost # -1
        /\ \E c \in 1 .. rightmost :
              grid[r][c] \in acceptingStates /\ grid[r][c] # initState

\* a filter that rejects a grid as soon as one of the two conditions fails
RejectedByAccToRight_Strict(grid, initState, acceptingStates) ==
  \/ ~ EveryRightmostAccepting(grid, acceptingStates)
  \/ SomeAcceptingBeforeRightmost(grid, initState, acceptingStates)

\* the accToRight test that makes the loop `continue`
RejectedByAccToRight(grid, initState, acceptingStates) ==
  /\ ~ EveryRightmostAccepting(grid, acceptingStates)
  /\ SomeAcceptingBeforeRightmost(grid, initState, acceptingStates)

\* a filter that keeps only the grids whose rows all end in an accepting
\* state
Survives_RowEndsOnly(grid, initState, acceptingStates, accToRight) ==
  /\ InitialInFirstColumn(grid, initState)
  /\ accToRight => EveryRightmostAccepting(grid, acceptingStates)

\* a search that never applies the accepting-state filter
Survives_Unfiltered(grid, initState, acceptingStates, accToRight) ==
  InitialInFirstColumn(grid, initState)

\* a candidate reaches the cost computation: neither `continue` is taken
Survives(grid, initState, acceptingStates, accToRight) ==
  /\ InitialInFirstColumn(grid, initState)
  /\ ~ (accToRight /\ RejectedByAccToRight(grid, initState, acceptingStates))

\* the keys that `for (const fromState in transitions)` visits: the own
\* keys of the table and the keys stored on Object.prototype
TableKeys(transitions) ==
  { <<name>> : name \in DOMAIN transitions.table } \cup DOMAIN transitions.prototype

\* transitions[fromState] for a key that TableKeys lists: a row of the
\* table or the array stored on Object.prototype
KindOf(transitions, fromState) ==
  IF Len(fromState) = 1 /\ fromState[1] \in DOMAIN transitions.table
  THEN "row" ELSE "array"

RowOf(transitions, fromState) ==
  IF KindOf(transitions, fromState) = "row" THEN fromState[1] ELSE fromState

\* the state is placed: statePositions has the key itself
Placed(key, statePositions) == Len(key) = 1 /\ key[1] \in DOMAIN statePositions

\* key in statePositions: the object has the property, own or inherited
In(key, statePositions, transitions) ==
  \/ Placed(key, statePositions)
  \/ InheritedKey(key)
  \/ key \in DOMAIN transitions.prototype

\* the key passes the test `in statePositions` through a property of
\* Object.prototype whose value, a function, cannot be destructured
Undestructurable(key, statePositions) ==
  InheritedKey(key) /\ ~ Placed(key, statePositions)

\* const [x, y] = statePositions[key] for a key that passes the test and
\* can be destructured: the position of a placed state; the first two
\* elements of the array stored on Object.prototype, as the numbers the
\* subtraction makes of them
Destructure(statePositions, transitions, key) ==
  IF Placed(key, statePositions) THEN statePositions[key[1]]
  ELSE LET elements == Elements(transitions, Ref(key))
       IN <<ToNumber(transitions, elements[1]),
            IF Len(elements) >= 2 THEN ToNumber(transitions, elements[2]) ELSE NaN>>

\* lines 51-54 for one pair: the distance if both names pass the test,
\* else 0. A pair that makes line 52 or 53 throw (costThrows) adds
\* nothing: the call then returns no cost.
PairCost(statePositions, transitions, fromState, toState) ==
  IF Placed(fromState, statePositions) /\ Placed(toState, statePositions)
  THEN Abs(statePositions[fromState[1]][1] - statePositions[toState[1]][1])
       + Abs(statePositions[fromState[1]][2] - statePositions[toState[1]][2])
  ELSE IF /\ In(fromState, statePositions, transitions)
          /\ In(toState, statePositions, transitions)
          /\ ~ Undestructurable(fromState, statePositions)
          /\ ~ Undestructurable(toState, statePositions)
  THEN LET p1 == Destructure(statePositions, transitions, fromState)
           p2 == Destructure(statePositions, transitions, toState)
       IN Plus(AbsDiff(p1[1], p2[1]), AbsDiff(p1[2], p2[2]))
  ELSE 0

\* transitions[fromState][symbol] for a key that the loops visit
ValueOf(transitions, fromState, symbol) ==
  ValueAt(transitions, KindOf(transitions, fromState),
          RowOf(transitions, fromState), symbol)

\* the destinations that `for (const toState of transitions[fromState][symbol])`
\* visits
DestinationsAt(transitions, fromState, symbol) ==
  Elements(transitions, ValueOf(transitions, fromState, symbol))

\* the symbol keys that `for (const symbol in transitions[fromState])` visits
SymbolKeys(transitions, fromState) ==
  Keys(transitions, KindOf(transitions, fromState), RowOf(transitions, fromState))

\* sum of distances over the destinations dests[i..] of one symbol key of
\* a row of the table
RECURSIVE CostOfDestinations(_, _, _, _, _)
CostOfDestinations(statePositions, transitions, fromState, dests, i) ==
  IF i > Len(dests) THEN 0
  ELSE Plus(IF fromState \in DOMAIN statePositions /\ dests[i] \in DOMAIN statePositions
            THEN Abs(statePositions[fromState][1] - statePositions[dests[i]][1])
                 + Abs(statePositions[fromState][2] - statePositions[dests[i]][2])
            ELSE PairCost(statePositions, transitions, <<fromState>>, <<dests[i]>>),
            CostOfDestinations(statePositions, transitions, fromState, dests, i + 1))

\* a sum that counts a destination once for every symbol of its key
RECURSIVE CostOfKeys_PerSymbol(_, _, _, _)
CostOfKeys_PerSymbol(statePositions, transitions, fromState, keys) ==
  IF keys = {} THEN 0
  ELSE LET symbol == CHOOSE k \in keys : TRUE
           once == CostOfDestinations(statePositions, transitions, fromState,
                                      transitions.table[fromState][symbol], 1)
       IN Plus(IF once = NaN THEN NaN ELSE Len(symbol) * once,
               CostOfKeys_PerSymbol(statePositions, transitions, fromState,
                                    keys \ {symbol}))

\* sum over the own symbol keys of a row of the table
RECURSIVE CostOfKeys(_, _, _, _)
CostOfKeys(statePositions, transitions, fromState, keys) ==
  IF keys = {} THEN 0
  ELSE LET symbol == CHOOSE k \in keys : TRUE
       IN Plus(CostOfDestinations(statePositions, transitions, fromState,
                                  transitions.table[fromState][symbol], 1),
               CostOfKeys(statePositions, transitions, fromState, keys \ {symbol}))

\* sum of distances over the elements of a value reached through the
\* prototype chain
RECURSIVE CostOfElements(_, _, _, _, _)
CostOfElements(statePositions, transitions, fromState, elements, i) ==
  IF i > Len(elements) THEN 0
  ELSE Plus(PairCost(statePositions, transitions, fromState,
                     ToKey(transitions, elements[i])),
            CostOfElements(statePositions, transitions, fromState, elements, i + 1))

\* sum over symbol keys that for-in visits besides the own keys of a row:
\* those the row inherits, and all the keys of an array stored on
\* Object.prototype
RECURSIVE CostOfStoredKeys(_, _, _, _)
CostOfStoredKeys(statePositions, transitions, fromState, keys) ==
  IF keys = {} THEN 0
  ELSE LET symbol == CHOOSE k \in keys : TRUE
       IN Plus(CostOfElements(statePositions, transitions, fromState,
                              DestinationsAt(transitions, fromState, symbol), 1),
               CostOfStoredKeys(statePositions, transitions, fromState,
                                keys \ {symbol}))

\* sum over the rows of the table: for-in visits the own symbol keys of
\* the row, then those it inherits
RECURSIVE CostOfSources(_, _, _)
CostOfSources(statePositions, transitions, sources) ==
  IF sources = {} THEN 0
  ELSE LET fromState == CHOOSE f \in sources : TRUE
           own == DOMAIN transitions.table[fromState]
       IN Plus(Plus(CostOfKeys(statePositions, transitions, fromState, own),
                    CostOfStoredKeys(statePositions, transitions, <<fromState>>,
                                     DOMAIN transitions.prototype \ own)),
               CostOfSources(statePositions, transitions, sources \ {fromState}))

\* sum over the keys stored on Object.prototype, which for-in visits as
\* sources after the own keys of the table
RECURSIVE CostOfStoredSources(_, _, _)
CostOfStoredSources(statePositions, transitions, sources) ==
  IF sources = {} THEN 0
  ELSE LET fromState == CHOOSE f \in sources : TRUE
       IN Plus(CostOfStoredKeys(statePositions, transitions, fromState,
                                SymbolKeys(transitions, fromState)),
               CostOfStoredSources(statePositions, transitions, sources \ {fromState}))

\* calculateTransitionCost: the total, NaN if a distance is. transitions
\* is the heap of the table: both for-in loops visit the keys stored on
\* Object.prototype with the own ones.
calculateTransitionCost(statePositions, transitions) ==
  Plus(CostOfSources(statePositions, transitions, DOMAIN transitions.table),
       CostOfStoredSources(statePositions, transitions,
                           { key \in DOMAIN transitions.prototype :
                               KindOf(transitions, key) = "array" }))

\* a destructuring that never throws
costThrows_Never(statePositions, transitions) == FALSE

\* calculateTransitionCost throws a TypeError: both names of a pair pass
\* the test `in statePositions`, and one of them is not placed but names a
\* property of Object.prototype
costThrows(statePositions, transitions) ==
  \E fromState \in TableKeys(transitions) :
     \E symbol \in SymbolKeys(transitions, fromState) :
        LET dests == DestinationsAt(transitions, fromState, symbol)
        IN \E i \in 1 .. Len(dests) :
              /\ In(fromState, statePositions, transitions)
              /\ In(ToKey(transitions, dests[i]), statePositions, transitions)
              /\ \/ Undestructurable(fromState, statePositions)
                 \/ Undestructurable(ToKey(transitions, dests[i]), statePositions)

\* a comparison that keeps the costlier grid
LessThanMin_Reversed(cost, least) == cost # NaN /\ (least = Infinity \/ cost > least)

\* a comparison that lets a candidate of equal cost replace the best
LessThanMin_OrEqual(cost, least) == cost # NaN /\ (least = Infinity \/ cost <= least)

\* cost < minCost, which is false for the cost NaN
LessThanMin(cost, least) == cost # NaN /\ (least = Infinity \/ cost < least)

\* the body of the inner loop for one permutation: the best grid and its
\* cost after it, from the best before it
TryPermutation(best, rows, cols, perm, initState, acceptingStates, transitions, accToRight) ==
  LET grid == PlaceRowWise(perm, rows, cols)
  IN IF ~ Survives(grid, initState, acceptingStates, accToRight) THEN best
     ELSE LET cost == calculateTransitionCost(PositionsRowWise(perm, rows, cols),
                                              transitions)
          IN IF LessThanMin(cost, best.minCost)
             THEN [bestGrid |-> grid, minCost |-> cost]
             ELSE best

\* the inner loop: the best after the permutations perms[1..p] of one shape
RECURSIVE SearchPermutations(_, _, _, _, _, _, _, _, _)
SearchPermutations(best, rows, cols, perms, p, initState, acceptingStates, transitions, accToRight) ==
  IF p = 0 THEN best
  ELSE TryPermutation(
         SearchPermutations(best, rows, cols, perms, p - 1, initState,
                            acceptingStates, transitions, accToRight),
         rows, cols, perms[p], initState, acceptingStates, transitions, accToRight)

\* a source or a destination that the loops visit names a property of
\* Object.prototype: without one, no destructuring throws
NamesInherited(transitions) ==
  \E fromState \in TableKeys(transitions) :
     \/ InheritedKey(fromState)
     \/ \E symbol \in SymbolKeys(transitions, fromState) :
           LET dests == DestinationsAt(transitions, fromState, symbol)
           IN \E i \in 1 .. Len(dests) : InheritedKey(ToKey(transitions, dests[i]))

\* the inner loop throws in one shape: the cost of some candidate that
\* passes the filters is computed and throws
shapeThrows(rows, cols, perms, initState, acceptingStates, transitions, accToRight) ==
  /\ NamesInherited(transitions)
  /\ \E p \in 1 .. Len(perms) :
       /\ Survives(PlaceRowWise(perms[p], rows, cols), initState, acceptingStates, accToRight)
       /\ costThrows(PositionsRowWise(perms[p], rows, cols), transitions)

\* row.some(cell => cell !== null)
RowOccupied(row) == \E c \in 1 .. Len(row) : row[c] # null

\* the return value of findOptimalStatePlacement: the rows of the best grid
\* that hold a state
TrimEmptyRows(grid) == SelectSeq(grid, RowOccupied)

-----------------------------------------------------------------------------
(* Edge routing *)

\* the cells [i, j] (0-based) of a grid, and the row-major order on them
Cells(grid) ==
  UNION { { <<i, j>> : j \in 0 .. Len(grid[i + 1]) - 1 } : i \in 0 .. Len(grid) - 1 }

RowMajorBefore(a, b) == a[1] < b[1] \/ (a[1] = b[1] /\ a[2] <= b[2])

CellAt(grid, ij) == grid[ij[1] + 1][ij[2] + 1]

\* the first cell in row-major order of a non-empty set of cells
FirstCell(S) == CHOOSE a \in S : \A b \in S : RowMajorBefore(a, b)

\* the reduce of bendDirection: the last row that holds the state and the
\* first column of the state in it, [-1, -1] if there is none
reducePosition(grid, state) ==
  LET rowsWith == { r \in 0 .. Len(grid) - 1 :
                      \E c \in 1 .. Len(grid[r + 1]) : grid[r + 1][c] = state }
  IN IF rowsWith = {} THEN <<-1, -1>>
     ELSE LET r == CHOOSE x \in rowsWith : \A y \in rowsWith : y <= x
              c == CHOOSE x \in 0 .. Len(grid[r + 1]) - 1 :
                     /\ grid[r + 1][x + 1] = state
                     /\ \A y \in 0 .. x - 1 : grid[r + 1][y + 1] # state
          IN <<r, c>>

\* a bendDirection that tests the last row before row 0
bendDirection_LastRowFirst(fromState, toState, grid) ==
  LET from == reducePosition(grid, fromState)
      to   == reducePosition(grid, toState)
      fromRow == from[1]
      fromCol == from[2]
      toRow == to[1]
      toCol == to[2]
  IN IF fromRow = toRow /\ fromRow = Len(grid) - 1
     THEN (IF fromCol < toCol THEN <<"right", "below">> ELSE <<"left", "below">>)
     ELSE IF fromRow = toRow /\ fromRow = 0
     THEN (IF fromCol < toCol THEN <<"left", "above">> ELSE <<"right", "above">>)
     ELSE IF fromCol = toCol /\ fromCol = 0
     THEN (IF fromRow < toRow THEN <<"right", "right">> ELSE <<"left", "left">>)
     ELSE IF fromCol = toCol /\ fromCol = Len(grid[1]) - 1
     THEN (IF fromRow < toRow THEN <<"left", "right">> ELSE <<"right", "left">>)
     ELSE (IF fromCol < toCol THEN <<"right", "right">> ELSE <<"left", "left">>)

\* bendDirection: <<bend, label anchor>>
bendDirection(fromState, toState, grid) ==
  LET from == reducePosition(grid, fromState)
      to   == reducePosition(grid, toState)
      fromRow == from[1]
      fromCol == from[2]
      toRow == to[1]
      toCol == to[2]
  IN IF fromRow = toRow /\ fromRow = 0
     THEN (IF fromCol < toCol THEN <<"left", "above">> ELSE <<"right", "above">>)
     ELSE IF fromRow = toRow /\ fromRow = Len(grid) - 1
     THEN (IF fromCol < toCol THEN <<"right", "below">> ELSE <<"left", "below">>)
     ELSE IF fromCol = toCol /\ fromCol = 0
     THEN (IF fromRow < toRow THEN <<"right", "right">> ELSE <<"left", "left">>)
     ELSE IF fromCol = toCol /\ fromCol = Len(grid[1]) - 1
     THEN (IF fromRow < toRow THEN <<"left", "right">> ELSE <<"right", "left">>)
     ELSE (IF fromCol < toCol THEN <<"right", "right">> ELSE <<"left", "left">>)

\* a side test that looks left before it looks below
FreeSide_LeftFirst(grid, i, j) ==
  IF i = 0 \/ grid[i][j + 1] = null THEN "above"
  ELSE IF j = 0 \/ grid[i + 1][j] = null THEN "left"
  ELSE IF i = Len(grid) - 1 \/ grid[i + 2][j + 1] = null THEN "below"
  ELSE IF j = Len(grid[i + 1]) - 1 \/ grid[i + 1][j + 2] = null THEN "right"
  ELSE null

\* the side getEdge returns at a cell that holds the item, null if the cell
\* has an occupied neighbour on all four sides
FreeSide(grid, i, j) ==
  IF i = 0 \/ grid[i][j + 1] = null THEN "above"
  ELSE IF i = Len(grid) - 1 \/ grid[i + 2][j + 1] = null THEN "below"
  ELSE IF j = 0 \/ grid[i + 1][j] = null THEN "left"
  ELSE IF j = Len(grid[i + 1]) - 1 \/ grid[i + 1][j + 2] = null THEN "right"
  ELSE null

\* getEdge: the side of the first cell holding the item that has a free side
getEdge(grid, item) ==
  LET hits == { ij \in Cells(grid) :
                  CellAt(grid, ij) = item /\ FreeSide(grid, ij[1], ij[2]) # null }
  IN IF hits = {} THEN null
     ELSE LET ij == FirstCell(hits) IN FreeSide(grid, ij[1], ij[2])

\* findPosition of doesLineCrossOtherElements: <<>> stands for null
findPosition(arr2d, element) ==
  LET hits == { ij \in Cells(arr2d) : CellAt(arr2d, ij) = element }
  IN IF hits = {} THEN <<>> ELSE FirstCell(hits)

\* a crossing test without the bounding box: the whole line, not the segment
OnSegment_WholeLine(i, j, x1, y1, x2, y2) ==
  (x2 - x1) * (j - y1) = (y2 - y1) * (i - x1)

\* the test applied to the cell [i, j] for the line from [x1, y1] to [x2, y2]
OnSegment(i, j, x1, y1, x2, y2) ==
  /\ (x2 - x1) * (j - y1) = (y2 - y1) * (i - x1)
  /\ Min(x1, x2) <= i /\ i <= Max(x1, x2)
  /\ Min(y1, y2) <= j /\ j <= Max(y1, y2)

doesLineCrossOtherElements(arr2d, e1, e2) ==
  LET pos1 == findPosition(arr2d, e1)
      pos2 == findPosition(arr2d, e2)
  IN IF pos1 = <<>> \/ pos2 = <<>> THEN FALSE
     ELSE \E ij \in Cells(arr2d) :
            /\ ij # pos1 /\ ij # pos2
            /\ OnSegment(ij[1], ij[2], pos1[1], pos1[2], pos2[1], pos2[2])

\* a loop side that ignores the free sides of the cell
loopPos_AlwaysBelow(grid, fromState) == "below"

\* loopPos: getEdge(optimalStatePlacement, fromState) || 'below'
loopPos(grid, fromState) ==
  LET edge == getEdge(grid, fromState)
  IN IF edge # null THEN edge ELSE "below"

-----------------------------------------------------------------------------
(* Node declarations *)

\* the node declarations of the cells cells[k..] of the grid in row-major
\* order; acc holds the code so far, previousRowFirstState and previousState
RECURSIVE NodesFrom(_, _, _, _, _, _)
NodesFrom(grid, cells, k, acc, initState, acceptingStates) ==
  IF k > Len(cells) THEN acc.code
  ELSE LET rowIndex == cells[k][1]
           colIndex == cells[k][2]
           state == CellAt(grid, cells[k])
           \* a new row resets previousState
           previousState == IF colIndex = 0 THEN null ELSE acc.previousState
           decl(anchor, of) ==
             [kind |-> "node", name |-> state, anchor |-> anchor, of |-> of,
              initial |-> (state = initState),
              accepting |-> (state \in acceptingStates)]
           next ==
             IF state = null
             THEN [acc EXCEPT !.previousState = previousState]
             ELSE IF colIndex = 0 /\ rowIndex > 0 /\ acc.previousRowFirstState # null
             THEN [code |-> Append(acc.code, decl("below of", acc.previousRowFirstState)),
                   previousRowFirstState |-> state, previousState |-> state]
             ELSE IF colIndex > 0 /\ previousState # null
             THEN [code |-> Append(acc.code, decl("right of", previousState)),
                   previousRowFirstState |-> acc.previousRowFirstState,
                   previousState |-> state]
             ELSE [code |-> Append(acc.code, decl("", null)),
                   previousRowFirstState |-> state, previousState |-> state]
       IN NodesFrom(grid, cells, k + 1, next, initState, acceptingStates)

\* the cells of a grid as a sequence in row-major order
RECURSIVE RowMajor(_)
RowMajor(S) ==
  IF S = {} THEN <<>> ELSE <<FirstCell(S)>> \o RowMajor(S \ {FirstCell(S)})

NodeDeclarations(grid, initState, acceptingStates) ==
  NodesFrom(grid, RowMajor(Cells(grid)), 1,
            [code |-> <<>>, previousRowFirstState |-> null, previousState |-> null],
            initState, acceptingStates)

-----------------------------------------------------------------------------
(* generate() *)

\* a caller that applies the accepting-state filter under the other
\* convention
accToRight_ByDouble == acceptingBy = "accepting by double"

n == Len(statesArray)

\* transitionsObj as the lookups of this page see it: the table with what
\* it inherits
Transitions == Heap(transitionsObj, page)

accToRight == acceptingBy = "accepting by arrow"

\* the test of the loop branch
IsLoop(fromState, toState) ==
  fromState = toState /\ Truthy(checkTransition(Transitions, fromState, toState))

\* a non-loop test that holds for a transition in either direction
IsNonLoop_EitherDirection(fromState, toState) ==
  checkConnection(Transitions, fromState, toState) > 0

\* the test of the non-loop branch
IsNonLoop(fromState, toState) ==
  Truthy(checkTransition(Transitions, fromState, toState))

\* a straight-edge test that asks for a mutual pair
IsStraight_Mutual(fromState, toState) ==
  /\ ~ doesLineCrossOtherElements(optimalStatePlacement, fromState, toState)
  /\ checkConnection(Transitions, fromState, toState) = 2

\* the test that chooses the straight edge
IsStraight(fromState, toState) ==
  /\ ~ doesLineCrossOtherElements(optimalStatePlacement, fromState, toState)
  /\ checkConnection(Transitions, fromState, toState) = 1

\* a stored bend direction that is mirrored when it is used again
BendOf_Mirrored(fromIdx, toIdx) ==
  IF bendDirectionArray[fromIdx][toIdx] # ""
  THEN (IF bendDirectionArray[fromIdx][toIdx] = "left" THEN "right" ELSE "left")
  ELSE bendDirection(statesArray[fromIdx], statesArray[toIdx], optimalStatePlacement)[1]

\* a bend direction computed afresh for every direction of a pair
BendOf_Fresh(fromIdx, toIdx) ==
  bendDirection(statesArray[fromIdx], statesArray[toIdx], optimalStatePlacement)[1]

\* bD: the stored bend direction of the pair if there is one ('' is falsy),
\* else the one bendDirection computes
BendOf(fromIdx, toIdx) ==
  IF bendDirectionArray[fromIdx][toIdx] # ""
  THEN bendDirectionArray[fromIdx][toIdx]
  ELSE bendDirection(statesArray[fromIdx], statesArray[toIdx], optimalStatePlacement)[1]

\* the declaration the body of the edge loops adds for one pair, <<>> if none,
\* and the bend direction it stores, "" if none
EdgeOf(fromIdx, toIdx) ==
  LET fromState == statesArray[fromIdx]
      toState   == statesArray[toIdx]
      label     == checkTransition(Transitions, fromState, toState)
  IN IF IsLoop(fromState, toState)
     THEN [decl |-> <<[kind |-> "loop", from |-> fromState, to |-> fromState,
                        pos |-> loopPos(optimalStatePlacement, fromState),
                        label |-> label]>>,
           bD |-> ""]
     ELSE IF IsNonLoop(fromState, toState)
     THEN IF IsStraight(fromState, toState)
          THEN [decl |-> <<[kind |-> "straight", from |-> fromState, to |-> toState,
                            label |-> label]>>,
                bD |-> ""]
          ELSE LET bD == BendOf(fromIdx, toIdx)
               IN [decl |-> <<[kind |-> "bent", from |-> fromState, to |-> toState,
                               bend |-> bD,
                               anchor |-> bendDirection(fromState, toState,
                                                        optimalStatePlacement)[2],
                               label |-> label]>>,
                   bD |-> bD]
     ELSE [decl |-> <<>>, bD |-> ""]

\* no helper function is called on its own
NoCall == call = <<>> /\ returned = <<>>

\* the component around generate() is left out
NoComponent ==
  /\ fieldValues = <<>>
  /\ generateTimers = {}
  /\ nextHandler = 0
  /\ generatedFrom = <<>>
  /\ renderTimers = {}
  /\ nextRender = 0
  /\ locationSearch = <<>>
  /\ edits = <<>>
  /\ rendered = <<>>
  /\ effects = <<>>

TypeOK ==
  /\ pc \in {"input", "search", "edges", "done", "call", "component", "unmounted",
            "raised"}
  /\ acceptingBy \in {"accepting by double", "accepting by arrow"}

Init ==
  /\ statesArray \in { StateList(k) : k \in 0 .. MaxStates }
  /\ initialState \in { statesArray[i] : i \in 1 .. Len(statesArray) } \cup {UnknownName}
  /\ acceptingStatesArray \in SUBSET { statesArray[i] : i \in 1 .. Len(statesArray) }
  /\ transitionsList \in RecordLists
  /\ acceptingBy \in {"accepting by double", "accepting by arrow"}
  /\ pc = "input"
  /\ transitionsObj = EmptyObject
  /\ page = EmptyPage
  /\ sizeIndex = 1
  /\ bestGrid = <<>>
  /\ minCost = Infinity
  /\ optimalStatePlacement = <<>>
  /\ bendDirectionArray = <<>>
  /\ fromIndex = 1
  /\ toIndex = 1
  /\ code = <<>>
  /\ tikzCode = <<>>
  /\ NoCall
  /\ NoComponent

\* generate() up to the call of findOptimalStatePlacement and the
\* initialisation of its search
GenerateBegin ==
  /\ pc = "input"
  /\ LET heap == createTransitionsFrom(transitionsList, 1, Heap(EmptyObject, page))
     IN /\ page' = PageOf(heap)
        /\ IF throwsFrom(transitionsList, 1, Heap(EmptyObject, page))
           THEN \* generate() is left by the exception of createTransitions:
                \* transitionsObj is not bound and the search is not entered
                /\ pc' = "raised"
                /\ UNCHANGED <<transitionsObj, sizeIndex, bestGrid, minCost>>
           ELSE /\ transitionsObj' = heap.table
                /\ sizeIndex' = 1
                /\ bestGrid' = <<>>
                /\ minCost' = Infinity
                /\ pc' = "search"
  /\ UNCHANGED <<inputs, optimalStatePlacement, bendDirectionArray, fromIndex,
                 toIndex, code, tikzCode>>
  /\ UNCHANGED <<harness, ui>>

\* one pass of the outer loop of findOptimalStatePlacement: every
\* permutation in the shape availableGridSizes[sizeIndex]
SearchShape ==
  /\ pc = "search"
  /\ sizeIndex <= Len(getPossibleGridSizes(n))
  /\ LET availableGridSizes == getPossibleGridSizes(n)
         allPermutations == getPermutations(statesArray)
     IN IF shapeThrows(availableGridSizes[sizeIndex][1], availableGridSizes[sizeIndex][2],
                       allPermutations, initialState, acceptingStatesArray,
                       Transitions, accToRight)
        THEN \* generate() is left by the exception: tikzCode is not set
             /\ pc' = "raised"
             /\ UNCHANGED <<bestGrid, minCost, sizeIndex>>
        ELSE /\ \E best \in { SearchPermutations([bestGrid |-> bestGrid, minCost |-> minCost],
                                   availableGridSizes[sizeIndex][1],
                                   availableGridSizes[sizeIndex][2],
                                   allPermutations, Len(allPermutations), initialState,
                                   acceptingStatesArray, Transitions, accToRight) } :
                   /\ bestGrid' = best.bestGrid
                   /\ minCost' = best.minCost
             /\ sizeIndex' = sizeIndex + 1
             /\ pc' = pc
  /\ UNCHANGED <<inputs, transitionsObj, page, optimalStatePlacement,
                 bendDirectionArray, fromIndex, toIndex, code, tikzCode>>
  /\ UNCHANGED <<harness, ui>>

\* the return of findOptimalStatePlacement, the node declarations and the
\* initialisation of the edge loops
GenerateNodes ==
  /\ pc = "search"
  /\ sizeIndex > Len(getPossibleGridSizes(n))
  /\ optimalStatePlacement' = TrimEmptyRows(bestGrid)
  /\ code' = NodeDeclarations(TrimEmptyRows(bestGrid), initialState,
                              acceptingStatesArray)
  /\ bendDirectionArray' = [i \in 1 .. n |-> [j \in 1 .. n |-> ""]]
  /\ fromIndex' = 1
  /\ toIndex' = 1
  /\ pc' = "edges"
  /\ UNCHANGED <<inputs, transitionsObj, page, search, tikzCode>>
  /\ UNCHANGED <<harness, ui>>

\* one pass of the body of the nested forEach over statesArray
GenerateEdge ==
  /\ pc = "edges"
  /\ fromIndex <= n
  /\ LET e == EdgeOf(fromIndex, toIndex)
     IN /\ code' = code \o e.decl
        /\ bendDirectionArray' =
             IF e.bD = "" THEN bendDirectionArray
             ELSE [i \in 1 .. n |-> [j \in 1 .. n |->
                     IF <<i, j>> = <<fromIndex, toIndex>> \/ <<i, j>> = <<toIndex, fromIndex>>
                     THEN e.bD ELSE bendDirectionArray[i][j]]]
  /\ IF toIndex < n
     THEN fromIndex' = fromIndex /\ toIndex' = toIndex + 1
     ELSE fromIndex' = fromIndex + 1 /\ toIndex' = 1
  /\ UNCHANGED <<inputs, pc, transitionsObj, page, search, optimalStatePlacement, tikzCode>>
  /\ UNCHANGED <<harness, ui>>

\* the end of generate(): setTikzCode(code)
GenerateEnd ==
  /\ pc = "edges"
  /\ fromIndex > n
  /\ tikzCode' = code
  /\ pc' = "done"
  /\ UNCHANGED <<inputs, transitionsObj, page, search, optimalStatePlacement,
                 bendDirectionArray, fromIndex, toIndex, code>>
  /\ UNCHANGED <<harness, ui>>

Next == GenerateBegin \/ SearchShape \/ GenerateNodes \/ GenerateEdge \/ GenerateEnd

Spec == Init /\ [][Next]_vars

\* What earlier runs of generate() have left on the page: createTransitions
\* stores on Object.prototype and on the functions it holds, and nothing
\* removes these keys before the next run.
EarlierPages ==
  { EmptyPage, storedOnInherited(<< <<"__proto__", "0", "q2">> >>) }

TablePages ==
  EarlierPages
    \cup { storedOnInherited(<< <<"__proto__", "q1", "q2">> >>),
           storedOnInherited(<< <<"toString", "keys", "q1">> >>) }

\* createTransitions alone, on the transitions fields built from
\* TableRecordSeq
TableInit ==
  /\ statesArray = StateList(MaxStates)
  /\ initialState = statesArray[1]
  /\ acceptingStatesArray = {}
  /\ transitionsList \in TableRecordLists
  /\ acceptingBy = "accepting by double"
  /\ pc = "input"
  /\ transitionsObj = EmptyObject
  /\ page \in TablePages
  /\ sizeIndex = 1
  /\ bestGrid = <<>>
  /\ minCost = Infinity
  /\ optimalStatePlacement = <<>>
  /\ bendDirectionArray = <<>>
  /\ fromIndex = 1
  /\ toIndex = 1
  /\ code = <<>>
  /\ tikzCode = <<>>
  /\ NoCall
  /\ NoComponent

TableSpec == TableInit /\ [][GenerateBegin]_vars

\* generate() on the records of the documented scenarios
ScenarioInit ==
  /\ statesArray \in { StateList(k) : k \in 1 .. MaxScenarioStates }
  /\ initialState \in { statesArray[i] : i \in 1 .. Len(statesArray) } \cup {UnknownName}
  /\ acceptingStatesArray \in SUBSET { statesArray[i] : i \in 1 .. Len(statesArray) }
  /\ transitionsList \in ScenarioRecordLists
  /\ acceptingBy \in {"accepting by double", "accepting by arrow"}
  /\ pc = "input"
  /\ transitionsObj = EmptyObject
  /\ page = EmptyPage
  /\ sizeIndex = 1
  /\ bestGrid = <<>>
  /\ minCost = Infinity
  /\ optimalStatePlacement = <<>>
  /\ bendDirectionArray = <<>>
  /\ fromIndex = 1
  /\ toIndex = 1
  /\ code = <<>>
  /\ tikzCode = <<>>
  /\ NoCall
  /\ NoComponent

ScenarioSpec == ScenarioInit /\ [][Next]_vars

\* generate() on a page whose Object.prototype holds keys, stored by an
\* earlier run or by the records of this one
PrototypeInit ==
  /\ statesArray \in { StateList(k) : k \in 1 .. MaxStates }
  /\ initialState \in {statesArray[1], statesArray[Len(statesArray)], UnknownName}
  /\ acceptingStatesArray = {}
  /\ transitionsList \in PrototypeRecordLists
  /\ acceptingBy = "accepting by double"
  /\ pc = "input"
  /\ transitionsObj = EmptyObject
  /\ page \in EarlierPages
  /\ sizeIndex = 1
  /\ bestGrid = <<>>
  /\ minCost = Infinity
  /\ optimalStatePlacement = <<>>
  /\ bendDirectionArray = <<>>
  /\ fromIndex = 1
  /\ toIndex = 1
  /\ code = <<>>
  /\ tikzCode = <<>>
  /\ NoCall
  /\ NoComponent

PrototypeSpec == PrototypeInit /\ [][Next]_vars

\* findOptimalStatePlacement on such a page: generate() up to the node
\* declarations
PlacementInit ==
  /\ statesArray \in { StateList(k) : k \in 1 .. MaxStates }
  /\ initialState \in {statesArray[1], statesArray[Len(statesArray)], UnknownName}
  /\ acceptingStatesArray \in SUBSET { statesArray[i] : i \in 1 .. Len(statesArray) }
  /\ transitionsList \in PlacementRecordLists
  /\ acceptingBy \in {"accepting by double", "accepting by arrow"}
  /\ pc = "input"
  /\ transitionsObj = EmptyObject
  /\ page \in EarlierPages
  /\ sizeIndex = 1
  /\ bestGrid = <<>>
  /\ minCost = Infinity
  /\ optimalStatePlacement = <<>>
  /\ bendDirectionArray = <<>>
  /\ fromIndex = 1
  /\ toIndex = 1
  /\ code = <<>>
  /\ tikzCode = <<>>
  /\ NoCall
  /\ NoComponent

PlacementNext == GenerateBegin \/ SearchShape \/ GenerateNodes

PlacementSpec == PlacementInit /\ [][PlacementNext]_vars

-----------------------------------------------------------------------------
(* generate() on transitions that name undeclared states *)

\* records between declared states and records that leave the state list
StrayRecordSeq ==
  << <<"q1", "0", "q2">>,
     <<"q2", "0", "1", "q1">>,            \* two symbols
     <<"q1", "0", "q1">>,
     <<"q1", "0", UnknownName>>,          \* undeclared destination, shared key
     <<UnknownName, "1", "q1">>,          \* undeclared source
     <<UnknownName, "0", UnknownName>>,
     <<"q1", "1", "toString">>,           \* undeclared destination that names
                                          \* an inherited property
     <<"toString", "0", "q1">>,           \* undeclared source that does
     <<"q1", "toString", "q2">> >>        \* a symbol that does

StrayRecordLists == ListsOf(StrayRecordSeq)

StrayInit ==
  /\ statesArray \in { StateList(k) : k \in 1 .. MaxScenarioStates }
  /\ initialState \in { statesArray[i] : i \in 1 .. Len(statesArray) } \cup {UnknownName}
  /\ acceptingStatesArray \in SUBSET { statesArray[i] : i \in 1 .. Len(statesArray) }
  /\ transitionsList \in StrayRecordLists
  /\ acceptingBy \in {"accepting by double", "accepting by arrow"}
  /\ pc = "input"
  /\ transitionsObj = EmptyObject
  /\ page = EmptyPage
  /\ sizeIndex = 1
  /\ bestGrid = <<>>
  /\ minCost = Infinity
  /\ optimalStatePlacement = <<>>
  /\ bendDirectionArray = <<>>
  /\ fromIndex = 1
  /\ toIndex = 1
  /\ code = <<>>
  /\ tikzCode = <<>>
  /\ NoCall
  /\ NoComponent

StraySpec == StrayInit /\ [][Next]_vars

-----------------------------------------------------------------------------
(* getEdge called on its own *)

\* the state whose loop is placed, and the name held by the other cells
LoopState == NameSeq[1]
OtherState == NameSeq[2]

\* the four cells next to the cell ij
NeighbourCells(ij) ==
  { <<ij[1] - 1, ij[2]>>, <<ij[1] + 1, ij[2]>>, <<ij[1], ij[2] - 1>>, <<ij[1], ij[2] + 1>> }

\* the grid of the given shape with LoopState at the cell at (<<>>: nowhere),
\* null at the cells of holes and OtherState elsewhere
GridAround(rows, cols, at, holes) ==
  [r \in 1 .. rows |->
     [c \in 1 .. cols |->
        IF <<r - 1, c - 1>> = at THEN LoopState
        ELSE IF <<r - 1, c - 1>> \in holes THEN null
        ELSE OtherState]]

\* the grids getEdge is called with: every shape up to MaxSide x MaxSide,
\* LoopState at every cell or absent, every choice of empty cells among the
\* cells next to it
LoopGrids ==
  UNION { UNION { { GridAround(rows, cols, <<>>, {}) } \cup
                  UNION { { GridAround(rows, cols, <<i, j>>, holes) :
                              holes \in SUBSET (NeighbourCells(<<i, j>>)
                                                  \cap ((0 .. rows - 1) \X (0 .. cols - 1))) } :
                          i \in 0 .. rows - 1, j \in 0 .. cols - 1 } :
                  cols \in 1 .. MaxSide } :
          rows \in 1 .. MaxSide }

\* no run of generate(): its fields and locals are left out
NoRun(at) ==
  /\ statesArray = <<>>
  /\ initialState = UnknownName
  /\ acceptingStatesArray = {}
  /\ transitionsList = <<>>
  /\ acceptingBy = "accepting by double"
  /\ pc = at
  /\ transitionsObj = EmptyObject
  /\ page = EmptyPage
  /\ sizeIndex = 1
  /\ bestGrid = <<>>
  /\ minCost = Infinity
  /\ optimalStatePlacement = <<>>
  /\ bendDirectionArray = <<>>
  /\ fromIndex = 1
  /\ toIndex = 1
  /\ code = <<>>
  /\ tikzCode = <<>>

\* the variables of a run of generate()
run == <<inputs, pc, transitionsObj, page, search, optimalStatePlacement,
         bendDirectionArray, fromIndex, toIndex, code, tikzCode>>

GetEdgeInit ==
  /\ NoRun("call")
  /\ call \in { [fn |-> "getEdge", grid |-> g, item |-> LoopState] : g \in LoopGrids }
  /\ returned = <<>>
  /\ NoComponent

\* const loopPos = getEdge(optimalStatePlacement, fromState) || 'below'
CallGetEdge ==
  /\ pc = "call"
  /\ call.fn = "getEdge"
  /\ returned = <<>>
  /\ returned' = <<loopPos(call.grid, call.item)>>
  /\ UNCHANGED <<run, call, ui>>

GetEdgeSpec == GetEdgeInit /\ [][CallGetEdge]_vars

-----------------------------------------------------------------------------
(* bendDirection called on its own *)

\* the grid of the given shape with NameSeq[1] at the cell a, NameSeq[2] at
\* the cell b and NameSeq[3] elsewhere
BendGrid(rows, cols, a, b) ==
  [r \in 1 .. rows |->
     [c \in 1 .. cols |->
        IF <<r - 1, c - 1>> = a THEN NameSeq[1]
        ELSE IF <<r - 1, c - 1>> = b THEN NameSeq[2]
        ELSE NameSeq[3]]]

\* the grids bendDirection is called with: every shape up to MaxSide x
\* MaxSide with the two states at every pair of distinct cells, and the
\* empty grid
BendGrids ==
  {<<>>} \cup
  UNION { UNION { { BendGrid(rows, cols, a, b) :
                      a \in (0 .. rows - 1) \X (0 .. cols - 1),
                      b \in (0 .. rows - 1) \X (0 .. cols - 1) } :
                  cols \in 1 .. MaxSide } :
          rows \in 1 .. MaxSide }

BendInit ==
  /\ NoRun("call")
  /\ call \in { [fn |-> "bendDirection", fromState |-> NameSeq[1],
                  toState |-> NameSeq[2], grid |-> g] : g \in BendGrids }
  /\ returned = <<>>
  /\ NoComponent

\* bendDirection(fromState, toState, optimalStatePlacement)
CallBendDirection ==
  /\ pc = "call"
  /\ call.fn = "bendDirection"
  /\ returned = <<>>
  /\ returned' = <<bendDirection(call.fromState, call.toState, call.grid)>>
  /\ UNCHANGED <<run, call, ui>>

BendSpec == BendInit /\ [][CallBendDirection]_vars

-----------------------------------------------------------------------------
(* getPossibleGridSizes called on its own *)

ShapesInit ==
  /\ NoRun("call")
  /\ call \in { [fn |-> "getPossibleGridSizes", n |-> k] : k \in 1 .. MaxCount }
  /\ returned = <<>>
  /\ NoComponent

\* const availableGridSizes = getPossibleGridSizes(n)
CallGetPossibleGridSizes ==
  /\ pc = "call"
  /\ call.fn = "getPossibleGridSizes"
  /\ returned = <<>>
  /\ returned' = <<getPossibleGridSizes(call.n)>>
  /\ UNCHANGED <<run, call, ui>>

ShapesSpec == ShapesInit /\ [][CallGetPossibleGridSizes]_vars

-----------------------------------------------------------------------------
(* createTransitions called on its own *)

\* records of every shape: short ones, empty fields, symbols and sources
\* that name inherited properties
KeyRecordSeq ==
  << <<"q1", "0", "q2">>,
     <<"q2">>,                            \* a single field
     <<"q3", "q1">>,                      \* two fields
     <<"q1", "", "q2">>,                  \* an empty symbol
     <<"", "0", "q1">>,                   \* an empty source
     <<"q1", "toString", "q2">>,          \* the symbol names an inherited property
     <<"q2", "constructor", "q2">>,
     <<"q1", "0", "toString", "q2">>,     \* the key '0,toString' does not
     <<"toString", "0", "q1">>,           \* the source names an inherited property
     <<"toString", "q1">>,
     <<"toString", "name", "q1">>,        \* the symbol names a property of the
                                          \* function the source names
     <<"__proto__", "0", "q1">>,          \* the source names Object.prototype
     <<"q2", "1", "q3">> >>

KeyRecordLists == ListsOf(KeyRecordSeq)

CreateInit ==
  /\ NoRun("call")
  /\ call \in { [fn |-> "createTransitions", list |-> l] : l \in KeyRecordLists }
  /\ returned = <<>>
  /\ NoComponent

\* const transitionsObj = createTransitions(transitions): the call returns
\* the table or throws
CallCreateTransitions ==
  /\ pc = "call"
  /\ call.fn = "createTransitions"
  /\ returned = <<>>
  /\ returned' = IF createTransitionsThrows(call.list)
                 THEN <<[threw |-> "TypeError",
                         inherited |-> storedOnInherited(call.list)]>>
                 ELSE <<[threw |-> "", value |-> createTransitions(call.list),
                         inherited |-> storedOnInherited(call.list)]>>
  /\ UNCHANGED <<run, call, ui>>

CreateSpec == CreateInit /\ [][CallCreateTransitions]_vars

-----------------------------------------------------------------------------
(* The Generator component: its state, its renders and its effects *)

\* the values a field may take; 0 stands for the default value of useState
MaxVersion == 1

\* the number of values the user types into the fields and the code editor
MaxEdits == 2

\* the delay of the setTimeout of the generate effect
GenerateDelay == 500

\* the delay of the setTimeout of the render effect
RenderDelay == 1000

\* the empty text in an input field; the other values are 0 .. MaxVersion
EmptyText == MaxVersion + 1

\* the text 'q1,toString,q2' in the transitions field
ThrowingText == MaxVersion + 2

\* split(';') and split(',') of that text
ThrowingRecords == <<<<"q1", "toString", "q2">>>>

\* the dependency list of the generate effect
GenerateDeps ==
  {"states", "initialState", "acceptingStates", "transitions", "nodeDistance",
   "innerSep", "bendAngle", "shorten", "initialText", "initialWhere",
   "acceptingBy", "doubleDistance", "arrowType", "nodeFillColor", "lineWidth",
   "nodeBorderColor", "edgeColor", "symbolsStyle"}

\* the fields statesToURL writes into the query and the location effect
\* reads from it
InputFields == {"states", "initialState", "acceptingStates", "transitions"}

\* the fields the user types into: two of the inputs and one style field
EditedFields == {"states", "transitions", "nodeDistance"}

\* the values the user may give a field
ValuesOf(field) ==
  IF field = "transitions"
  THEN 0 .. ThrowingText
  ELSE IF field \in InputFields THEN 0 .. EmptyText ELSE 0 .. MaxVersion

\* useState(...) of every field
DefaultValues == [f \in GenerateDeps |-> 0]

\* tikzCode holds '' at first, then the code generate() built from some
\* field values, held as these values, or a text typed into the code editor
TypedCode == [f \in {"tikzCode"} |-> 0]

\* generate() in a render with the given field values throws: its call of
\* createTransitions does, and nothing catches the error
generateThrows(values) ==
  /\ values["transitions"] = ThrowingText
  /\ createTransitionsThrows(ThrowingRecords)

\* statesToURL() in a render with the given field values
statesToURL(values) == [f \in InputFields |-> values[f]]

\* params.get(field) || default: a missing and an empty parameter give the
\* default
paramOrDefault(searchText, field) ==
  IF searchText = <<>>
  THEN 0
  ELSE IF searchText[field] = EmptyText THEN 0 ELSE searchText[field]

\* a location effect that sets nothing
locationEffect_SetsNothing(values, searchText) == values

\* the four setters of the location effect applied to the field values
locationEffect(values, searchText) ==
  [f \in GenerateDeps |->
     IF f \in InputFields THEN paramOrDefault(searchText, f) ELSE values[f]]

\* a cleanup that clears nothing
cleanup_Nothing(timers, handler) == timers

\* return () => clearTimeout(handler)
cleanup(timers, handler) == { t \in timers : t.id # handler }

\* a generate timer whose generate is the closure of the first render
setTimeout_FirstRender(handler, values) ==
  [id |-> handler, delay |-> GenerateDelay, snapshot |-> DefaultValues]

\* setTimeout(() => generate(), 500) in a render with the given field
\* values: generate is the closure of that render
setTimeout(handler, values) ==
  [id |-> handler, delay |-> GenerateDelay, snapshot |-> values]

\* setTimeout(() => { renderTikz(tikzCode); updateURL(); }, 1000) in a
\* render with the given field values: updateURL is the closure of that
\* render
renderTimeout(handler, values) ==
  [id |-> handler, delay |-> RenderDelay, snapshot |-> values]

\* the location.search the page is opened with: no query, or a query whose
\* parameters are default but the states
InitialSearches ==
  {<<>>} \cup { [f \in InputFields |-> IF f = "states" THEN v ELSE 0] :
                  v \in 1 .. EmptyText }

\* the component: the state it holds, its timers, the values its last render
\* saw and the effects of that render that have not run
Component ==
  [fieldValues |-> fieldValues, generatedFrom |-> generatedFrom,
   locationSearch |-> locationSearch,
   generateTimers |-> generateTimers, nextHandler |-> nextHandler,
   renderTimers |-> renderTimers, nextRender |-> nextRender,
   rendered |-> rendered, effects |-> effects]

\* the state a render of the component would see
Held(c) ==
  [fields |-> c.fieldValues, code |-> c.generatedFrom, search |-> c.locationSearch]

\* React renders the component if its state has changed since the last
\* render; the effects of the render are left to run, with the dependencies
\* of the render before to compare with
render(c) ==
  IF c.effects # <<>> \/ Held(c) = c.rendered
  THEN c
  ELSE [c EXCEPT !.rendered = Held(c), !.effects = <<c.rendered>>]

\* the effects of the last render run in the order of their declaration,
\* each if one of its dependencies has changed: the location effect calls
\* the four setters, the render effect and the generate effect clear the
\* timer of their last run and set a new one
flushEffects(c) ==
  IF c.effects = <<>>
  THEN c
  ELSE LET before == c.effects[1]
           now == c.rendered
       IN [c EXCEPT
             !.effects = <<>>,
             !.fieldValues =
                IF now.search # before.search
                THEN locationEffect(c.fieldValues, now.search) ELSE @,
             !.renderTimers =
                IF now.code # before.code
                THEN cleanup(@, c.nextRender)
                       \cup {renderTimeout(c.nextRender + 1, now.fields)}
                ELSE @,
             !.nextRender = IF now.code # before.code THEN @ + 1 ELSE @,
             !.generateTimers =
                IF now.fields # before.fields
                THEN cleanup(@, c.nextHandler)
                       \cup {setTimeout(c.nextHandler + 1, now.fields)}
                ELSE @,
             !.nextHandler = IF now.fields # before.fields THEN @ + 1 ELSE @]

\* after the handler of an input event React runs the effects that were
\* left, renders, and runs the effects of that render before it returns to
\* the event loop
afterEvent(c) == flushEffects(render(flushEffects(c)))

\* the component takes the given state
Becomes(c) ==
  /\ fieldValues' = c.fieldValues
  /\ generatedFrom' = c.generatedFrom
  /\ locationSearch' = c.locationSearch
  /\ generateTimers' = c.generateTimers
  /\ nextHandler' = c.nextHandler
  /\ renderTimers' = c.renderTimers
  /\ nextRender' = c.nextRender
  /\ rendered' = c.rendered
  /\ effects' = c.effects

\* the dependencies of no render: every effect of the first render runs
BeforeMount ==
  [fields |-> [mounted |-> FALSE], code |-> [mounted |-> FALSE],
   search |-> [mounted |-> FALSE]]

\* the component after its first render, which held the defaults of
\* useState and displays them; the effects of that render have not run:
\* no setter of the location effect has been called, no timer is set
SyncInit ==
  /\ NoRun("component")
  /\ NoCall
  /\ locationSearch \in InitialSearches
  /\ fieldValues = DefaultValues
  /\ generatedFrom = <<>>
  /\ nextHandler = 0
  /\ generateTimers = {}
  /\ nextRender = 0
  /\ renderTimers = {}
  /\ rendered = [fields |-> DefaultValues, code |-> <<>>, search |-> locationSearch]
  /\ effects = <<BeforeMount>>
  /\ edits = <<>>

\* onChange of a field: the user types a value, which differs from the
\* value the field displays, that of the last render
UserEdit(field, value) ==
  /\ pc = "component"
  /\ Len(edits) < MaxEdits
  /\ value # rendered.fields[field]
  /\ edits' = Append(edits, <<field, value>>)
  /\ \E c \in {afterEvent([Component EXCEPT !.fieldValues[field] = value])} :
        Becomes(c)
  /\ UNCHANGED <<run, harness>>

\* onValueChange of the code editor: the user types into the code the
\* editor displays, that of the last render
UserTypesCode ==
  /\ pc = "component"
  /\ Len(edits) < MaxEdits
  /\ rendered.code # TypedCode
  /\ edits' = Append(edits, <<"tikzCode", 0>>)
  /\ \E c \in {afterEvent([Component EXCEPT !.generatedFrom = TypedCode])} :
        Becomes(c)
  /\ UNCHANGED <<run, harness>>

\* React renders after a state update made outside an input event
Render ==
  /\ pc = "component"
  /\ effects = <<>>
  /\ Held(Component) # rendered
  /\ \E c \in {render(Component)} : Becomes(c)
  /\ UNCHANGED <<run, harness, edits>>

\* React runs the effects of the last render
FlushEffects ==
  /\ pc = "component"
  /\ effects # <<>>
  /\ \E c \in {flushEffects(Component)} : Becomes(c)
  /\ UNCHANGED <<run, harness, edits>>

\* time passes while no pending timer has expired and React has nothing
\* left to run
Advance ==
  /\ pc = "component"
  /\ effects = <<>>
  /\ Held(Component) = rendered
  /\ generateTimers \cup renderTimers # {}
  /\ \A t \in generateTimers \cup renderTimers : t.delay > 0
  /\ generateTimers' =
        { [t EXCEPT !.delay = t.delay - GenerateDelay] : t \in generateTimers }
  /\ renderTimers' =
        { [t EXCEPT !.delay = t.delay - GenerateDelay] : t \in renderTimers }
  /\ UNCHANGED <<run, harness, fieldValues, nextHandler, generatedFrom,
                 nextRender, locationSearch, edits, rendered, effects>>

\* the timer of the generate effect expires: generate() of its render
\* throws, or it calls setTikzCode with the code of the field values of
\* that render
GenerateFires ==
  /\ pc = "component"
  /\ \E t \in generateTimers :
        /\ t.delay = 0
        /\ generateTimers' = generateTimers \ {t}
        /\ generatedFrom' =
              IF generateThrows(t.snapshot) THEN generatedFrom ELSE t.snapshot
  /\ UNCHANGED <<run, harness, fieldValues, nextHandler, renderTimers, nextRender,
                 locationSearch, edits, rendered, effects>>

\* the timer of the render effect expires: updateURL() of its render
\* navigates to the query of the field values of that render
RenderFires ==
  /\ pc = "component"
  /\ \E t \in renderTimers :
        /\ t.delay = 0
        /\ renderTimers' = renderTimers \ {t}
        /\ locationSearch' = statesToURL(t.snapshot)
  /\ UNCHANGED <<run, harness, fieldValues, nextHandler, generateTimers,
                 generatedFrom, nextRender, edits, rendered, effects>>

\* the component is removed: the cleanups of both effects run, and no
\* effect is left to run
SyncUnmount ==
  /\ pc = "component"
  /\ pc' = "unmounted"
  /\ generateTimers' = cleanup(generateTimers, nextHandler)
  /\ renderTimers' = cleanup(renderTimers, nextRender)
  /\ effects' = <<>>
  /\ UNCHANGED <<inputs, transitionsObj, page, search, optimalStatePlacement,
                 bendDirectionArray, fromIndex, toIndex, code, tikzCode>>
  /\ UNCHANGED <<harness, fieldValues, nextHandler, generatedFrom, nextRender,
                 locationSearch, edits, rendered>>

SyncNext ==
  \/ \E field \in EditedFields : \E value \in ValuesOf(field) : UserEdit(field, value)
  \/ UserTypesCode
  \/ Render
  \/ FlushEffects
  \/ Advance
  \/ GenerateFires
  \/ RenderFires
  \/ SyncUnmount

SyncSpec == SyncInit /\ [][SyncNext]_vars

\* React runs the work it has scheduled, the timers of the browser expire
\* and their callbacks run
SyncFairness ==
  /\ WF_vars(Render)
  /\ WF_vars(FlushEffects)
  /\ WF_vars(Advance)
  /\ WF_vars(GenerateFires)
  /\ WF_vars(RenderFires)

SyncLiveSpec == SyncInit /\ [][SyncNext]_vars /\ SyncFairness

-----------------------------------------------------------------------------
(* Vocabulary of the properties *)

\* the declared states
StateSet == { statesArray[i] : i \in 1 .. n }

\* the layout of this run has been computed
LayoutDone == pc \in {"edges", "done"}

\* the accepting-by-arrow convention is selected
ByArrow == acceptingBy = "accepting by arrow"

\* the cells of a grid that hold the state s
Occurrences(grid, s) == { ij \in Cells(grid) : CellAt(grid, ij) = s }

\* the candidates of the search: every shape with every permutation
CandidateSet ==
  LET sizes == getPossibleGridSizes(n)
      perms == getPermutations(statesArray)
  IN { [rows |-> sizes[i][1], cols |-> sizes[i][2], perm |-> perms[p]] :
         i \in 1 .. Len(sizes), p \in 1 .. Len(perms) }

\* the grid of a candidate
CandidateGrid(c) == PlaceRowWise(c.perm, c.rows, c.cols)

\* the transition cost of a candidate
CandidateCost(c) ==
  calculateTransitionCost(PositionsRowWise(c.perm, c.rows, c.cols), Transitions)

\* a candidate passes the filters of the search
CandidateSurvives(c) ==
  Survives(CandidateGrid(c), initialState, acceptingStatesArray, ByArrow)

\* the transition cost of a grid, from the cells its states occupy
GridCost(grid) ==
  LET occupants == { CellAt(grid, ij) : ij \in Cells(grid) } \ {null}
      position(s) == CHOOSE ij \in Cells(grid) : CellAt(grid, ij) = s
  IN calculateTransitionCost([s \in occupants |-> position(s)], Transitions)

\* the cell [r, c] (1-based) is the rightmost occupied cell of its row
RowEnd(grid, r, c) ==
  /\ grid[r][c] # null
  /\ \A d \in c + 1 .. Len(grid[r]) : grid[r][d] = null

\* every row's rightmost occupied cell is an accepting state
RowEndsAccepting(grid) ==
  \A r \in 1 .. Len(grid) : \A c \in 1 .. Len(grid[r]) :
     RowEnd(grid, r, c) => grid[r][c] \in acceptingStatesArray

\* no row holds an accepting state other than the initial state left of its
\* rightmost occupied cell
NoAcceptingLeftOfRowEnd(grid) ==
  \A r \in 1 .. Len(grid) : \A c \in 1 .. Len(grid[r]) : \A d \in c + 1 .. Len(grid[r]) :
     (grid[r][d] # null /\ grid[r][c] \in acceptingStatesArray)
        => grid[r][c] = initialState

\* the initial state is in column 0 of some row
InitialLeftmost(grid) == \E r \in 1 .. Len(grid) : grid[r][1] = initialState

-----------------------------------------------------------------------------
(* Properties of the layout search *)

\* C1: for a non-empty list of distinct states the returned grid is empty or
\* holds every declared state in exactly one cell, and nothing else.
C1_EveryStateExactlyOnce ==
  (LayoutDone /\ n >= 1) =>
     \/ optimalStatePlacement = <<>>
     \/ /\ \A s \in StateSet :
             Cardinality(Occurrences(optimalStatePlacement, s)) = 1
        /\ \A ij \in Cells(optimalStatePlacement) :
             CellAt(optimalStatePlacement, ij) \in StateSet \cup {null}

\* a returned grid of two rows with one empty cell holding all three states
C1_Witness ==
  /\ LayoutDone /\ n = 3
  /\ Len(optimalStatePlacement) = 2
  /\ Occurrences(optimalStatePlacement, null) # {}
  /\ \A s \in StateSet : Occurrences(optimalStatePlacement, s) # {}

\* C2: in every non-empty returned grid the initial state is in column 0 of
\* some row.
C2_InitialInColumnZero ==
  (LayoutDone /\ optimalStatePlacement # <<>>) =>
     \E r \in 1 .. Len(optimalStatePlacement) :
        optimalStatePlacement[r][1] = initialState

\* a returned grid whose initial state is not the first declared state and
\* stands in column 0 although candidates with it elsewhere were enumerated
C2_Witness ==
  /\ LayoutDone /\ n >= 2
  /\ optimalStatePlacement # <<>>
  /\ initialState # statesArray[1]
  /\ \E r \in 1 .. Len(optimalStatePlacement) :
        optimalStatePlacement[r][1] = initialState

\* C3: the cost of the returned grid is at most the cost of every candidate
\* (shape and permutation) that passes the filters; if a candidate passes,
\* a grid is returned.
C3_MinimalCost ==
  (pc = "done" /\ n >= 1) =>
     \A c \in CandidateSet :
        CandidateSurvives(c) =>
           /\ optimalStatePlacement # <<>>
           /\ GridCost(optimalStatePlacement) <= CandidateCost(c)

\* a grid of several rows was returned although a single-row candidate,
\* enumerated before it, passed the filters at a higher cost
C3_Witness ==
  /\ pc = "done" /\ n >= 1
  /\ optimalStatePlacement # <<>>
  /\ \E c \in CandidateSet :
        /\ CandidateSurvives(c)
        /\ c.rows = 1
        /\ CandidateCost(c) > GridCost(optimalStatePlacement)
  /\ Len(optimalStatePlacement) > 1

\* C4 as stated: under accepting by arrow a candidate survives only if both
\* conditions hold, and so does every returned grid.
C4_Original ==
  (pc = "done" /\ n >= 1 /\ ByArrow) =>
     /\ \A c \in CandidateSet :
           CandidateSurvives(c) =>
              /\ RowEndsAccepting(CandidateGrid(c))
              /\ NoAcceptingLeftOfRowEnd(CandidateGrid(c))
     /\ optimalStatePlacement # <<>> =>
           /\ RowEndsAccepting(optimalStatePlacement)
           /\ NoAcceptingLeftOfRowEnd(optimalStatePlacement)

\* C4 amended: under accepting by arrow a candidate survives if and only if
\* the initial state is in column 0 and at least one of the two conditions
\* holds: every row ends in an accepting state, or no row holds an accepting
\* state other than the initial state left of its end; every returned
\* non-empty grid satisfies at least one of them.
C4_SurvivesIffEither ==
  (pc = "done" /\ n >= 1 /\ ByArrow) =>
     /\ \A c \in CandidateSet :
           CandidateSurvives(c) <=>
              /\ InitialLeftmost(CandidateGrid(c))
              /\ \/ RowEndsAccepting(CandidateGrid(c))
                 \/ NoAcceptingLeftOfRowEnd(CandidateGrid(c))
     /\ optimalStatePlacement # <<>> =>
           \/ RowEndsAccepting(optimalStatePlacement)
           \/ NoAcceptingLeftOfRowEnd(optimalStatePlacement)

\* under accepting by arrow a grid was returned in which a row ends in a
\* state that is not accepting, and a candidate with the initial state in
\* column 0 was filtered out
C4_Witness ==
  /\ pc = "done" /\ n >= 2 /\ ByArrow
  /\ optimalStatePlacement # <<>>
  /\ ~ RowEndsAccepting(optimalStatePlacement)
  /\ \E c \in CandidateSet :
        InitialLeftmost(CandidateGrid(c)) /\ ~ CandidateSurvives(c)

\* C5 as stated: when accepting by arrow is disabled, every row of a
\* returned grid ends in an accepting state.
C5_Original ==
  (LayoutDone /\ ~ ByArrow /\ optimalStatePlacement # <<>>) =>
     RowEndsAccepting(optimalStatePlacement)

\* C5 amended: when accepting by arrow is enabled, every row of a returned
\* grid ends in an accepting state provided some row holds an accepting
\* state other than the initial state left of its end.
C5_RowEndsAcceptingWhenEnabled ==
  (LayoutDone /\ ByArrow /\ optimalStatePlacement # <<>>
     /\ ~ NoAcceptingLeftOfRowEnd(optimalStatePlacement)) =>
     RowEndsAccepting(optimalStatePlacement)

\* under accepting by arrow a returned grid holds an accepting state left of
\* a row end, and a candidate with the initial state in column 0 was
\* filtered out
C5_Witness ==
  /\ pc = "done" /\ ByArrow
  /\ optimalStatePlacement # <<>>
  /\ ~ NoAcceptingLeftOfRowEnd(optimalStatePlacement)
  /\ RowEndsAccepting(optimalStatePlacement)
  /\ \E c \in CandidateSet :
        InitialLeftmost(CandidateGrid(c)) /\ ~ CandidateSurvives(c)

-----------------------------------------------------------------------------
(* Vocabulary of the table and edge properties *)

\* some record of the transitions field leads from a to b
HasRecord(a, b) ==
  \E i \in 1 .. Len(transitionsList) :
     /\ RecordSource(transitionsList[i]) = a
     /\ RecordDestination(transitionsList[i]) = b

\* the names the table is queried with: every source and destination of a
\* record, every declared state, the empty name
QueryNames ==
  UNION { {RecordSource(TableRecordSeq[i]), RecordDestination(TableRecordSeq[i])} :
            i \in 1 .. Len(TableRecordSeq) }
    \cup StateSet \cup {""}

\* the table of this run has been built
TableDone == pc # "input"

\* the positions in the emitted code of the edge declarations from a to b
EdgeDecls(a, b) ==
  { k \in 1 .. Len(code) :
      code[k].kind # "node" /\ code[k].from = a /\ code[k].to = b }

\* a and b are distinct declared states with transitions in both directions
Mutual(a, b) ==
  /\ a \in StateSet /\ b \in StateSet /\ a # b
  /\ HasRecord(a, b) /\ HasRecord(b, a)

\* the cell of a placed state
PlacedAt(s) == CHOOSE ij \in Cells(optimalStatePlacement) :
                 CellAt(optimalStatePlacement, ij) = s

IsPlaced(s) == Occurrences(optimalStatePlacement, s) # {}

\* the point p lies on the segment from p1 to p2: the cross product of
\* p - p1 and p2 - p1 vanishes and p - p1, p2 - p do not point apart
Between(p, p1, p2) ==
  /\ (p[1] - p1[1]) * (p2[2] - p1[2]) = (p[2] - p1[2]) * (p2[1] - p1[1])
  /\ (p[1] - p1[1]) * (p2[1] - p[1]) + (p[2] - p1[2]) * (p2[2] - p[2]) >= 0

\* another state occupies a cell on the segment between the cells of a and b
Blocked(a, b) ==
  /\ IsPlaced(a) /\ IsPlaced(b)
  /\ \E s \in StateSet \ {a, b} :
        IsPlaced(s) /\ Between(PlacedAt(s), PlacedAt(a), PlacedAt(b))

-----------------------------------------------------------------------------
(* Properties of the transition table *)

\* createTransitions has returned the table of this run
TableBuilt == pc = "search"

\* nothing is stored on a value that objects inherit from, neither by an
\* earlier run nor by the records of this one
NothingInherited == page = EmptyPage

\* nothing is stored where the lookup of a as a source looks
LooksUpOwnRow(a) ==
  \/ NothingInherited
  \/ page.prototype = EmptyObject /\ a \notin ObjectPrototype

\* C6 as stated: checkTransition of the table built from the records is
\* null for (a, b) if and only if no record has source a and destination b.
C6_Original ==
  TableDone =>
     \A a \in QueryNames : \A b \in QueryNames :
        (checkTransition(Transitions, a, b) = <<>>) <=> ~ HasRecord(a, b)

\* C6, the behaviour of the code: when createTransitions returns,
\* checkTransition is not null for a pair a record leads between; it is
\* null for every other pair provided that nothing is stored on
\* Object.prototype and that a names no inherited property on which
\* something is stored. Otherwise it also returns the symbols that were
\* stored on the inherited object, for pairs without a record.
C6_NullIffNoRecordOrInherited ==
  TableBuilt =>
     \A a \in QueryNames : \A b \in QueryNames :
        /\ HasRecord(a, b) => checkTransition(Transitions, a, b) # <<>>
        /\ LooksUpOwnRow(a) =>
             (checkTransition(Transitions, a, b) # <<>> => HasRecord(a, b))

\* checkTransition returns symbols for a pair of declared states that no
\* record leads between, and null for another pair
C6_Witness ==
  /\ TableBuilt
  /\ \E a \in StateSet : \E b \in StateSet :
        /\ ~ HasRecord(a, b)
        /\ checkTransition(Transitions, a, b) # <<>>
  /\ \E a \in StateSet : \E b \in StateSet :
        checkTransition(Transitions, a, b) = <<>>
  /\ \E i \in 1 .. Len(transitionsList) : RecordSource(transitionsList[i]) \in StateSet

\* C7: checkConnection is symmetric; it is 2 iff checkTransition returns
\* symbols in both directions, 1 iff in exactly one direction, 0
\* otherwise. When nothing is stored on an inherited object, symbols exist
\* from a to b exactly when a record leads from a to b.
C7_ConnectionDegree ==
  TableDone =>
     \A a \in QueryNames : \A b \in QueryNames :
        LET degree == checkConnection(Transitions, a, b)
            forth == Truthy(checkTransition(Transitions, a, b))
            back == Truthy(checkTransition(Transitions, b, a))
        IN /\ degree = checkConnection(Transitions, b, a)
           /\ degree \in {0, 1, 2}
           /\ degree = 2 <=> (forth /\ back)
           /\ degree = 1 <=> (forth # back)
           /\ (TableBuilt /\ NothingInherited) =>
                /\ degree = 2 <=> (HasRecord(a, b) /\ HasRecord(b, a))
                /\ degree = 1 <=> (HasRecord(a, b) # HasRecord(b, a))

\* the table holds a one-way pair and an unconnected pair of distinct
\* declared states, and a pair that is mutual by a record in one direction
\* and a symbol stored on Object.prototype in the other
C7_Witness ==
  /\ TableBuilt
  /\ \E a \in StateSet : \E b \in StateSet \ {a} : \E c \in StateSet \ {a, b} :
        /\ checkConnection(Transitions, a, b) = 2
        /\ ~ HasRecord(a, b) /\ HasRecord(b, a)
        /\ checkConnection(Transitions, c, a) = 1 /\ HasRecord(a, c)
        /\ checkConnection(Transitions, b, c) = 0

-----------------------------------------------------------------------------
(* Properties of the edge loop *)

\* C8 as stated: every edge declaration from a to b has a record from a to
\* b behind it, and it is a loop if and only if a = b: a pair (s, s) yields
\* no straight or bent edge, a pair without transition a -> b yields
\* nothing.
C8_Original ==
  \A k \in 1 .. Len(code) :
     code[k].kind # "node" =>
        /\ HasRecord(code[k].from, code[k].to)
        /\ code[k].kind = "loop" <=> code[k].from = code[k].to

\* C8, the behaviour of the code: an edge declaration is a loop if and
\* only if it leads from a state to itself, and a pair of declared states
\* gets a declaration exactly when checkTransition returns symbols for it.
\* These are the symbols of the records from a to b when nothing is stored
\* on Object.prototype; otherwise a pair without a record gets a
\* declaration as well, labelled with the symbols stored there.
C8_EdgeIffSymbols ==
  /\ \A k \in 1 .. Len(code) :
        code[k].kind # "node" =>
           /\ code[k].kind = "loop" <=> code[k].from = code[k].to
           /\ checkTransition(Transitions, code[k].from, code[k].to) # <<>>
           /\ page.prototype = EmptyObject => HasRecord(code[k].from, code[k].to)
  /\ pc = "done" =>
        \A a \in StateSet : \A b \in StateSet :
           IF checkTransition(Transitions, a, b) # <<>>
           THEN Cardinality(EdgeDecls(a, b)) = 1
           ELSE EdgeDecls(a, b) = {}

\* at the end of the loop: a pair of distinct states without a record in
\* either direction got a declaration, a state without a record to itself
\* got a loop, and a pair got none
C8_Witness ==
  /\ pc = "done"
  /\ \E a \in StateSet : \E b \in StateSet \ {a} :
        /\ ~ HasRecord(a, b) /\ ~ HasRecord(b, a)
        /\ EdgeDecls(a, b) # {}
  /\ \E s \in StateSet :
        /\ ~ HasRecord(s, s)
        /\ \E k \in EdgeDecls(s, s) : code[k].kind = "loop"
  /\ \E a \in StateSet : \E b \in StateSet \ {a} : EdgeDecls(a, b) = {}

\* C9 as stated: the two declarations of a mutual pair carry opposite bend
\* directions.
C9_Original ==
  pc = "done" =>
     \A a \in StateSet : \A b \in StateSet :
        Mutual(a, b) =>
           \E k \in EdgeDecls(a, b) : \E l \in EdgeDecls(b, a) :
              /\ code[k].kind = "bent" /\ code[l].kind = "bent"
              /\ code[k].bend # code[l].bend

\* C9 amended: the two declarations of a mutual pair are both bent edges
\* and carry the same bend direction, 'left' or 'right'. A pair is mutual
\* when records lead in both directions, and also when checkConnection
\* is 2 by symbols stored on Object.prototype.
C9_SameBend ==
  pc = "done" =>
     \A a \in StateSet : \A b \in StateSet \ {a} :
        (Mutual(a, b) \/ checkConnection(Transitions, a, b) = 2) =>
           /\ Cardinality(EdgeDecls(a, b)) = 1
           /\ Cardinality(EdgeDecls(b, a)) = 1
           /\ \A k \in EdgeDecls(a, b) : \A l \in EdgeDecls(b, a) :
                 /\ code[k].kind = "bent" /\ code[l].kind = "bent"
                 /\ code[k].bend \in {"left", "right"}
                 /\ code[k].bend = code[l].bend

\* both directions of a mutual pair were emitted, and the bend direction of
\* the second differs from what bendDirection gives for it
C9_Witness ==
  /\ pc = "done"
  /\ \E a \in StateSet : \E b \in StateSet :
        /\ Mutual(a, b)
        /\ \E k \in EdgeDecls(a, b) : \E l \in EdgeDecls(b, a) :
              /\ k < l
              /\ code[k].kind = "bent" /\ code[l].kind = "bent"
              /\ code[l].bend # bendDirection(b, a, optimalStatePlacement)[1]

\* C10 as stated: a pair of distinct states with a transition a -> b gets
\* exactly one declaration: a straight edge if the pair is connected in one
\* direction only and no other state occupies a cell on the segment between
\* the cells of a and b, a bent edge otherwise.
C10_Original ==
  pc = "done" =>
     \A a \in StateSet : \A b \in StateSet \ {a} :
        HasRecord(a, b) =>
           /\ Cardinality(EdgeDecls(a, b)) = 1
           /\ \A k \in EdgeDecls(a, b) :
                 code[k].kind = IF ~ HasRecord(b, a) /\ ~ Blocked(a, b)
                                THEN "straight" ELSE "bent"

\* C10, the behaviour of the code: a pair of distinct states with a record
\* a -> b gets exactly one declaration: a straight edge if checkConnection
\* is 1 and no other state occupies a cell on the segment between the
\* cells of a and b, a bent edge otherwise. checkConnection is 1 exactly
\* when no record leads back provided that nothing is stored on
\* Object.prototype; otherwise a symbol stored there can make the pair
\* mutual, and the edge bent, without a record from b to a.
C10_StraightIffDegreeOneAndClear ==
  pc = "done" =>
     \A a \in StateSet : \A b \in StateSet \ {a} :
        HasRecord(a, b) =>
           /\ Cardinality(EdgeDecls(a, b)) = 1
           /\ \A k \in EdgeDecls(a, b) :
                 /\ code[k].kind =
                      IF checkConnection(Transitions, a, b) = 1 /\ ~ Blocked(a, b)
                      THEN "straight" ELSE "bent"
                 /\ page.prototype = EmptyObject =>
                      code[k].kind = IF ~ HasRecord(b, a) /\ ~ Blocked(a, b)
                                     THEN "straight" ELSE "bent"

\* a pair with a record in one direction only and no state between its
\* cells was emitted as a bent edge, another such pair as a straight edge
C10_Witness ==
  /\ pc = "done"
  /\ \E a \in StateSet : \E b \in StateSet \ {a} :
        /\ HasRecord(a, b) /\ ~ HasRecord(b, a) /\ ~ Blocked(a, b)
        /\ IsPlaced(a) /\ IsPlaced(b)
        /\ \E k \in EdgeDecls(a, b) : code[k].kind = "bent"
  /\ \E a \in StateSet : \E b \in StateSet \ {a} :
        /\ HasRecord(a, b) /\ ~ HasRecord(b, a) /\ ~ Blocked(a, b)
        /\ \E k \in EdgeDecls(a, b) : code[k].kind = "straight"

-----------------------------------------------------------------------------
(* Properties of the loop side *)

\* the cell ij of the grid holds a state
Occupied(grid, ij) == ij \in Cells(grid) /\ CellAt(grid, ij) # null

\* the sides of a cell in the order of preference, with the cell next to ij
\* on each side
SideOrder == <<"above", "below", "left", "right">>

CellOnSide(ij, side) ==
  CASE side = "above" -> <<ij[1] - 1, ij[2]>>
    [] side = "below" -> <<ij[1] + 1, ij[2]>>
    [] side = "left"  -> <<ij[1], ij[2] - 1>>
    [] side = "right" -> <<ij[1], ij[2] + 1>>

\* the preferred side of the cell ij without an occupied neighbour, 'below'
\* if there is none
FirstFreeSide(grid, ij) ==
  LET free == { k \in 1 .. Len(SideOrder) : ~ Occupied(grid, CellOnSide(ij, SideOrder[k])) }
  IN IF free = {} THEN "below"
     ELSE SideOrder[CHOOSE k \in free : \A l \in free : k <= l]

\* C11: the loop side of a state is the first of above, below, left, right
\* on which its cell has no occupied neighbour (grid boundary or empty
\* cell); it is 'below' if all four neighbours are occupied or the state is
\* not in the grid.
C11_FirstFreeSide ==
  (pc = "call" /\ call.fn = "getEdge" /\ returned # <<>>) =>
     LET at == Occurrences(call.grid, call.item)
     IN returned[1] = IF at = {} THEN "below"
                      ELSE FirstFreeSide(call.grid, CHOOSE ij \in at : TRUE)

\* the loop side 'below' was returned for a state all of whose four
\* neighbours are occupied
C11_Witness ==
  /\ pc = "call" /\ call.fn = "getEdge" /\ returned = <<"below">>
  /\ \E ij \in Occurrences(call.grid, call.item) :
        \A k \in 1 .. Len(SideOrder) : Occupied(call.grid, CellOnSide(ij, SideOrder[k]))

-----------------------------------------------------------------------------
(* Documented scenarios *)

\* the edge declarations of the emitted code, in order
EdgeDeclarations == SelectSeq(tikzCode, LAMBDA decl : decl.kind # "node")

\* the run of generate() on the given fields has ended
RanOn(states, initState, acceptingStates, records) ==
  /\ pc = "done"
  /\ statesArray = states
  /\ initialState = initState
  /\ acceptingStatesArray = acceptingStates
  /\ transitionsList = records

\* C12 as stated: states [q1], initial q1, accepting [q1], transitions
\* 'q1,0,1,q1' give the grid [[q1]] and one self-loop labelled 0, 1 on the
\* side 'below'.
C12_Original ==
  RanOn(<<"q1">>, "q1", {"q1"}, << <<"q1", "0", "1", "q1">> >>) =>
     /\ optimalStatePlacement = << <<"q1">> >>
     /\ EdgeDeclarations =
          << [kind |-> "loop", from |-> "q1", to |-> "q1", pos |-> "below",
              label |-> <<"0", "1">>] >>

\* C12 amended: the same scenario gives the grid [[q1]] and exactly one
\* self-loop labelled 0, 1 on the side 'above', the first free side of the
\* only cell.
C12_SingleStateLoopAbove ==
  RanOn(<<"q1">>, "q1", {"q1"}, << <<"q1", "0", "1", "q1">> >>) =>
     /\ optimalStatePlacement = << <<"q1">> >>
     /\ EdgeDeclarations =
          << [kind |-> "loop", from |-> "q1", to |-> "q1", pos |-> "above",
              label |-> <<"0", "1">>] >>

\* the run on the scenario of C12 has ended with a loop declaration
C12_Witness ==
  /\ RanOn(<<"q1">>, "q1", {"q1"}, << <<"q1", "0", "1", "q1">> >>)
  /\ \E k \in 1 .. Len(tikzCode) : tikzCode[k].kind = "loop"

\* C13: states [q1, q2], initial q1, accepting [q2], transitions
\* 'q1,0,q1; q1,1,q2' give the grid [[q1, q2]], a self-loop at q1 and a
\* straight edge q1 -> q2 labelled 1, and no other edge.
C13_LoopAndStraightEdge ==
  RanOn(<<"q1", "q2">>, "q1", {"q2"},
        << <<"q1", "0", "q1">>, <<"q1", "1", "q2">> >>) =>
     /\ optimalStatePlacement = << <<"q1", "q2">> >>
     /\ EdgeDeclarations =
          << [kind |-> "loop", from |-> "q1", to |-> "q1", pos |-> "above",
              label |-> <<"0">>],
             [kind |-> "straight", from |-> "q1", to |-> "q2", label |-> <<"1">>] >>

\* the run on the scenario of C13 has ended with a straight edge
C13_Witness ==
  /\ RanOn(<<"q1", "q2">>, "q1", {"q2"},
           << <<"q1", "0", "q1">>, <<"q1", "1", "q2">> >>)
  /\ \E k \in 1 .. Len(tikzCode) : tikzCode[k].kind = "straight"

-----------------------------------------------------------------------------
(* Properties of the enumeration order *)

\* the position of a declared state in the state list
IndexOf(state) == CHOOSE i \in 1 .. n : statesArray[i] = state

\* the shape <<r1, c1>> comes before <<r2, c2>> in (rows, cols) lexical order
ShapeBefore(r1, c1, r2, c2) == r1 < r2 \/ (r1 = r2 /\ c1 < c2)

\* the permutation p comes before q, lexicographically by the positions of
\* their states in the state list
PermutationBefore(p, q) ==
  \E k \in 1 .. Len(p) :
     /\ IndexOf(p[k]) < IndexOf(q[k])
     /\ \A j \in 1 .. k - 1 : p[j] = q[j]

\* the candidate c is enumerated before the candidate d
CandidateBefore(c, d) ==
  \/ ShapeBefore(c.rows, c.cols, d.rows, d.cols)
  \/ c.rows = d.rows /\ c.cols = d.cols /\ PermutationBefore(c.perm, d.perm)

\* the candidates that pass the filters, each with its cost
PricedSurvivors ==
  { <<c, CandidateCost(c)>> : c \in { d \in CandidateSet : CandidateSurvives(d) } }

\* the surviving candidates of minimal cost
MinimalSurvivors ==
  LET priced == PricedSurvivors
  IN { x[1] : x \in { y \in priced : \A z \in priced : y[2] <= z[2] } }

\* C14: the shapes are enumerated in increasing (rows, cols) lexical order
\* and the permutations in lexicographic order of the positions in the
\* state list; among the surviving candidates of minimal cost the search
\* returns the one enumerated first.
C14_FirstOfMinimalCost ==
  (pc = "done" /\ n >= 1) =>
     LET sizes == getPossibleGridSizes(n)
         perms == getPermutations(statesArray)
         minimal == MinimalSurvivors
     IN /\ \A i \in 1 .. Len(sizes) - 1 :
             ShapeBefore(sizes[i][1], sizes[i][2], sizes[i + 1][1], sizes[i + 1][2])
        /\ \A p \in 1 .. Len(perms) - 1 : PermutationBefore(perms[p], perms[p + 1])
        /\ minimal # {} =>
             \E c \in minimal :
                /\ \A d \in minimal \ {c} : CandidateBefore(c, d)
                /\ optimalStatePlacement = TrimEmptyRows(CandidateGrid(c))

\* a tie across shapes and a tie within the shape of the returned grid: a
\* surviving candidate of minimal cost in a later shape was not returned,
\* and the returned grid shares its shape with another candidate of
\* minimal cost
C14_Witness ==
  /\ pc = "done" /\ n >= 2
  /\ \E c \in MinimalSurvivors : \E d \in MinimalSurvivors :
        /\ ShapeBefore(c.rows, c.cols, d.rows, d.cols)
        /\ TrimEmptyRows(CandidateGrid(d)) # optimalStatePlacement
  /\ \E c \in MinimalSurvivors : \E d \in MinimalSurvivors :
        /\ c.rows = d.rows /\ c.cols = d.cols /\ c.perm # d.perm
        /\ TrimEmptyRows(CandidateGrid(c)) = optimalStatePlacement

-----------------------------------------------------------------------------
(* Properties of the candidate shapes *)

\* the shapes returned by the call of getPossibleGridSizes, as a set
ReturnedShapes == { returned[1][i] : i \in 1 .. Len(returned[1]) }

\* the pairs of integers in 1 .. most whose product is count or count + 1
ShapesUpTo(most, count) ==
  { rc \in (1 .. most) \X (1 .. most) :
      rc[1] * rc[2] = count \/ rc[1] * rc[2] = count + 1 }

\* C15 as stated: the shapes are exactly the pairs of positive integers
\* whose product is n or n + 1 (no factor of such a pair exceeds n + 1).
C15_Original ==
  (pc = "call" /\ call.fn = "getPossibleGridSizes" /\ returned # <<>>) =>
     ReturnedShapes = ShapesUpTo(call.n + 1, call.n)

\* C15 amended: the shapes are exactly the pairs (rows, cols) with
\* 1 <= rows <= n, 1 <= cols <= n and rows * cols = n or n + 1, each once;
\* the shapes 1 x (n + 1) and (n + 1) x 1 are not among them.
C15_ShapesWithinN ==
  (pc = "call" /\ call.fn = "getPossibleGridSizes" /\ returned # <<>>) =>
     /\ ReturnedShapes = ShapesUpTo(call.n, call.n)
     /\ Cardinality(ReturnedShapes) = Len(returned[1])
     /\ <<1, call.n + 1>> \notin ReturnedShapes
     /\ <<call.n + 1, 1>> \notin ReturnedShapes

\* the call returned a shape with one cell more than n and a shape with
\* exactly n cells
C15_Witness ==
  /\ pc = "call" /\ call.fn = "getPossibleGridSizes" /\ returned # <<>>
  /\ \E rc \in ReturnedShapes : rc[1] * rc[2] = call.n + 1
  /\ \E rc \in ReturnedShapes : rc[1] * rc[2] = call.n /\ rc[1] > 1 /\ rc[2] > 1

-----------------------------------------------------------------------------
(* Properties of the empty result *)

\* the candidates of the search for a state list
CandidatesOf(states) ==
  LET sizes == getPossibleGridSizes(Len(states))
      perms == getPermutations(states)
  IN { [rows |-> sizes[i][1], cols |-> sizes[i][2], perm |-> perms[p]] :
         i \in 1 .. Len(sizes), p \in 1 .. Len(perms) }

\* some candidate for the state list passes the filters
Feasible(states, initState, acceptingStates, flag) ==
  \E c \in CandidatesOf(states) :
     Survives(PlaceRowWise(c.perm, c.rows, c.cols), initState, acceptingStates, flag)

\* if no candidate passes the filters, the search returns the empty grid
EmptyIfInfeasible ==
  (LayoutDone /\ n >= 1) =>
     ((\A c \in CandidateSet : ~ CandidateSurvives(c)) => optimalStatePlacement = <<>>)

CandidatePositions(c) == PositionsRowWise(c.perm, c.rows, c.cols)

\* the candidate that lists the states in one column, in the order of the
\* state list
ColumnCandidate == [rows |-> n, cols |-> 1, perm |-> statesArray]

\* the cost is NaN: a key stored on Object.prototype passes the test
\* `in statePositions` and is destructured into values that are not
\* numbers. Whether it is does not depend on the candidate (see C24), so
\* it is read off the cost of one.
CostIsNaN == CandidateCost(ColumnCandidate) = NaN

\* the search has returned or thrown
SearchEnded == LayoutDone \/ pc = "raised"

\* calculateTransitionCost throws for some candidate
PricingThrows ==
  \E c \in CandidateSet : costThrows(CandidatePositions(c), Transitions)

-----------------------------------------------------------------------------
(* Properties of the labels *)

\* the distinct symbol lists of the records from a to b
SymbolListsBetween(a, b) ==
  { RecordSymbols(transitionsList[i]) :
      i \in { j \in 1 .. Len(transitionsList) :
                /\ RecordSource(transitionsList[j]) = a
                /\ RecordDestination(transitionsList[j]) = b } }

\* the symbols that occur in some record from a to b
SymbolsBetween(a, b) ==
  UNION { { list[i] : i \in 1 .. Len(list) } : list \in SymbolListsBetween(a, b) }

\* how often x occurs in a sequence
CountIn(seq, x) == Cardinality({ i \in 1 .. Len(seq) : seq[i] = x })

\* how often x occurs in the sequences of a set, all together
RECURSIVE CountInAll(_, _)
CountInAll(lists, x) ==
  IF lists = {} THEN 0
  ELSE LET list == CHOOSE l \in lists : TRUE
       IN CountIn(list, x) + CountInAll(lists \ {list}, x)

\* a label is in ascending order
Ascending(label) ==
  \A i \in 1 .. Len(label) - 1 : CodeUnitRank(label[i]) <= CodeUnitRank(label[i + 1])

\* C17 as stated: the label of every emitted loop or edge from a to b lists
\* the symbols of the records from a to b in ascending order, each symbol
\* once.
C17_Original ==
  pc = "done" =>
     \A k \in 1 .. Len(EdgeDeclarations) :
        LET decl == EdgeDeclarations[k]
        IN /\ Ascending(decl.label)
           /\ { decl.label[i] : i \in 1 .. Len(decl.label) } = SymbolsBetween(decl.from, decl.to)
           /\ \A x \in SymbolsBetween(decl.from, decl.to) : CountIn(decl.label, x) = 1

\* C17, the behaviour of the code: the label of every emitted loop or edge
\* from a to b lists the symbols of the records from a to b in ascending
\* order, each symbol once for every occurrence in a distinct symbol list,
\* so a symbol of several records with different symbol lists is repeated.
C17_SortedWithRepeats ==
  pc = "done" =>
     \A k \in 1 .. Len(EdgeDeclarations) :
        LET decl == EdgeDeclarations[k]
        IN /\ Ascending(decl.label)
           /\ { decl.label[i] : i \in 1 .. Len(decl.label) } = SymbolsBetween(decl.from, decl.to)
           /\ \A x \in SymbolsBetween(decl.from, decl.to) :
                 CountIn(decl.label, x) = CountInAll(SymbolListsBetween(decl.from, decl.to), x)

\* an edge was emitted whose label repeats a symbol
C17_Witness ==
  /\ pc = "done"
  /\ \E k \in 1 .. Len(EdgeDeclarations) :
        \E x \in SymbolsBetween(EdgeDeclarations[k].from, EdgeDeclarations[k].to) :
           CountIn(EdgeDeclarations[k].label, x) > 1

-----------------------------------------------------------------------------
(* Properties of what the search depends on *)

\* the candidates with the initial state in column 0
WithInitialLeftmost ==
  { c \in CandidateSet : InitialLeftmost(CandidateGrid(c)) }

\* of these, the candidates that the accepting-state filter lets pass
PassingAcceptingFilter ==
  { c \in WithInitialLeftmost :
      ~ RejectedByAccToRight(CandidateGrid(c), initialState, acceptingStatesArray) }

\* the grid of the candidate of least cost in a set, the first enumerated
\* among equals, trimmed; the empty grid for the empty set
FirstOfLeastCost(candidates) ==
  LET priced == { <<c, CandidateCost(c)>> : c \in candidates }
  IN IF priced = {} THEN <<>>
     ELSE LET first == CHOOSE x \in priced :
                          \A y \in priced \ {x} :
                             \/ x[2] < y[2]
                             \/ x[2] = y[2] /\ CandidateBefore(x[1], y[1])
          IN TrimEmptyRows(CandidateGrid(first[1]))

\* C18: under 'accepting by arrow' the returned grid is chosen among the
\* candidates that pass the accepting-state filter; under any other
\* convention it is chosen among all candidates with the initial state in
\* column 0, so it is a function of the state list, the initial state and
\* the transitions alone, whatever the accepting set.
C18_FilterIffByArrow ==
  (pc = "done" /\ n >= 1) =>
     /\ ByArrow => optimalStatePlacement = FirstOfLeastCost(PassingAcceptingFilter)
     /\ ~ ByArrow => optimalStatePlacement = FirstOfLeastCost(WithInitialLeftmost)

\* not under 'accepting by arrow', a grid was returned that the
\* accepting-state filter would have rejected
C18_Witness ==
  /\ pc = "done" /\ n >= 2 /\ ~ ByArrow
  /\ optimalStatePlacement # <<>>
  /\ FirstOfLeastCost(PassingAcceptingFilter) # optimalStatePlacement

-----------------------------------------------------------------------------
(* Properties of the emitted description as a whole *)

\* the names of the nodes declared before position k of the output
DeclaredBefore(k) ==
  { tikzCode[j].name : j \in { i \in 1 .. k - 1 : tikzCode[i].kind = "node" } }

\* every name used at position k of the output is declared before it
NamesDeclared(k) ==
  IF tikzCode[k].kind = "node"
  THEN tikzCode[k].anchor # "" => tikzCode[k].of \in DeclaredBefore(k)
  ELSE tikzCode[k].from \in DeclaredBefore(k) /\ tikzCode[k].to \in DeclaredBefore(k)

\* the positions of the nodes that are placed absolutely
AbsoluteNodes ==
  { k \in 1 .. Len(tikzCode) : tikzCode[k].kind = "node" /\ tikzCode[k].anchor = "" }

\* the node declaration of the state in the occupied cell [r, c] (0-based)
\* is anchored by the rule of its position
AnchoredByPosition(r, c) ==
  LET grid == optimalStatePlacement
      state == grid[r + 1][c + 1]
  IN \E k \in 1 .. Len(tikzCode) :
        /\ tikzCode[k].kind = "node" /\ tikzCode[k].name = state
        /\ IF c > 0
           THEN tikzCode[k].anchor = "right of" /\ tikzCode[k].of = grid[r + 1][c]
           ELSE IF r > 0
           THEN tikzCode[k].anchor = "below of" /\ tikzCode[k].of = grid[r][1]
           ELSE tikzCode[k].anchor = ""

\* the emitted description is internally consistent
ConsistentOutput ==
  /\ \A k \in 1 .. Len(tikzCode) : NamesDeclared(k)
  /\ Cardinality(AbsoluteNodes) = 1
  /\ \A r \in 0 .. Len(optimalStatePlacement) - 1 :
        \A c \in 0 .. Len(optimalStatePlacement[r + 1]) - 1 :
           optimalStatePlacement[r + 1][c + 1] # null => AnchoredByPosition(r, c)

\* C19 as stated: for every input the emitted description is consistent:
\* every node named by an edge or by an anchor is declared earlier, exactly
\* one node is placed absolutely, every later first node of a row is below
\* the first node of the previous row and every other node right of the
\* previous node of its row.
C19_Original == pc = "done" => ConsistentOutput

\* C19, the behaviour of the code: the emitted description is consistent
\* exactly when the search returned a grid; on the empty grid no node is
\* declared, and the edges of the declared states are emitted all the same.
C19_ConsistentIffPlaced ==
  pc = "done" =>
     /\ ConsistentOutput <=> optimalStatePlacement # <<>>
     /\ optimalStatePlacement = <<>> =>
           \A k \in 1 .. Len(tikzCode) : tikzCode[k].kind # "node"

\* the search returned the empty grid and an edge between declared states
\* was emitted without any node declaration
C19_Witness ==
  /\ pc = "done" /\ n >= 2
  /\ optimalStatePlacement = <<>>
  /\ \E k \in 1 .. Len(tikzCode) :
        /\ tikzCode[k].kind # "node"
        /\ tikzCode[k].from # tikzCode[k].to
        /\ DeclaredBefore(k) = {}

-----------------------------------------------------------------------------
(* Properties of the debounce *)

\* React has no render and no effect left to run
ReactIdle == effects = <<>> /\ Held(Component) = rendered

\* the field values of the renders whose effects may have set a pending timer
RenderedFields ==
  {rendered.fields} \cup { effects[i].fields : i \in 1 .. Len(effects) }

\* at most one generate timer is pending
SingleSlot == Cardinality(generateTimers) <= 1

\* a change of a field clears the timers that were pending and leaves one
\* new timer of 500 ms
ChangeRestartsTimer ==
  fieldValues' # fieldValues =>
     /\ generateTimers' \cap generateTimers = {}
     /\ generateTimers' = {setTimeout(nextHandler', fieldValues')}

\* generate() has set the code
Generated == generatedFrom' # generatedFrom /\ edits' = edits

\* a run of generate() uses the present field values
GeneratesFromLatest == Generated => generatedFrom' = fieldValues

\* the user types into a field while React has nothing left to run: the
\* timers that were pending are cleared and one new timer of 500 ms is left
EditRestartsTimer ==
  (ReactIdle /\ edits' # edits /\ fieldValues' # fieldValues) =>
     /\ generateTimers' \cap generateTimers = {}
     /\ generateTimers' = {setTimeout(nextHandler', fieldValues')}

\* a run of generate() uses the field values of the render that set its
\* timer
GeneratesFromRender ==
  Generated =>
     \E t \in generateTimers \ generateTimers' :
        /\ t.delay = 0
        /\ generatedFrom' = t.snapshot

\* C20 as stated: every change of an input or style field cancels the
\* pending timer and starts a new 500 ms one, at most one generate is
\* pending at any time, and generate() never runs on field values that were
\* superseded.
C20_Original ==
  /\ [](pc \in {"component", "unmounted"} => SingleSlot)
  /\ [][ChangeRestartsTimer /\ GeneratesFromLatest]_vars

\* C20: at most one generate is pending at any time, and it is the timer of
\* a render; a field the user changes cancels the pending timer and starts
\* a new 500 ms one; generate() runs on the field values of the render that
\* set its timer, which the setters of the location effect may have
\* superseded.
C20_SingleSlotOfLastRender ==
  /\ [](pc \in {"component", "unmounted"} =>
          /\ SingleSlot
          /\ \A t \in generateTimers : t.snapshot \in RenderedFields)
  /\ [][EditRestartsTimer /\ GeneratesFromRender]_vars

\* the location effect has called the setters with other values than those
\* of the last render, and the code is the one generate() built since from
\* the field values of that render
C20_Witness ==
  /\ pc = "component"
  /\ effects = <<>>
  /\ locationSearch = rendered.search
  /\ fieldValues # rendered.fields
  /\ generatedFrom = rendered.fields
  /\ generatedFrom # rendered.code
  /\ generateTimers = {}

-----------------------------------------------------------------------------
(* Properties of the table as a whole *)

\* the destinations of the records with the given source and symbol key,
\* from position i of the transitions field on, in record order
RECURSIVE DestinationsFrom(_, _, _)
DestinationsFrom(source, key, i) ==
  IF i > Len(transitionsList) THEN <<>>
  ELSE (IF RecordSource(transitionsList[i]) = source /\ RecordKey(transitionsList[i]) = key
        THEN <<RecordDestination(transitionsList[i])>> ELSE <<>>)
       \o DestinationsFrom(source, key, i + 1)

\* the symbol keys of the records from a to b
KeysBetween(a, b) ==
  { RecordKey(transitionsList[i]) :
      i \in { j \in 1 .. Len(transitionsList) :
                /\ RecordSource(transitionsList[j]) = a
                /\ RecordDestination(transitionsList[j]) = b } }

\* the table holds, for every source and every symbol key of a record, the
\* destinations of all records of that source and key in record order, and
\* nothing else
TableOfRecords ==
  /\ DOMAIN transitionsObj =
       { RecordSource(transitionsList[i]) : i \in 1 .. Len(transitionsList) }
  /\ \A a \in DOMAIN transitionsObj :
       /\ DOMAIN transitionsObj[a] =
            { RecordKey(transitionsList[i]) :
                i \in { j \in 1 .. Len(transitionsList) :
                          RecordSource(transitionsList[j]) = a } }
       /\ \A key \in DOMAIN transitionsObj[a] :
             transitionsObj[a][key] = DestinationsFrom(a, key, 1)

\* the symbols of the records from a to b
SymbolsOfRecords(a, b) ==
  UNION { { key[i] : i \in 1 .. Len(key) } : key \in KeysBetween(a, b) }

\* the symbols checkTransition returns for (a, b)
SymbolsListed(a, b) ==
  LET symbols == checkTransition(Transitions, a, b)
  IN { symbols[i] : i \in 1 .. Len(symbols) }

\* C21 as stated: the table holds the destinations of all records in
\* record order, and checkTransition(a, b) lists the symbols of every
\* record from a to b, those declared first and those declared again, and
\* no other.
C21_Original ==
  TableDone =>
     /\ TableOfRecords
     /\ \A a \in QueryNames : \A b \in QueryNames :
          SymbolsListed(a, b) = SymbolsOfRecords(a, b)

\* C21, the behaviour of the code: when createTransitions returns,
\* checkTransition(a, b) lists the symbols of every record from a to b,
\* those declared first and those declared again. When nothing is stored
\* on an inherited object it lists no other symbol and the table holds the
\* destinations of all records in record order; otherwise it also lists
\* the symbols stored on Object.prototype, and the destinations of records
\* whose key is found there are not in the table.
C21_NeverOverwritesButInherits ==
  TableBuilt =>
     /\ \A a \in QueryNames : \A b \in QueryNames :
          SymbolsOfRecords(a, b) \subseteq SymbolsListed(a, b)
     /\ NothingInherited =>
          /\ TableOfRecords
          /\ \A a \in QueryNames : \A b \in QueryNames :
               SymbolsListed(a, b) = SymbolsOfRecords(a, b)

\* a pair of states is declared again with a further symbol, and
\* checkTransition lists the symbols of both records and a symbol of no
\* record of the pair
C21_Witness ==
  /\ TableBuilt
  /\ \E a \in StateSet : \E b \in StateSet :
        /\ Cardinality(KeysBetween(a, b)) >= 2
        /\ SymbolsOfRecords(a, b) \subseteq SymbolsListed(a, b)
        /\ SymbolsListed(a, b) # SymbolsOfRecords(a, b)

-----------------------------------------------------------------------------
(* Properties of createTransitions on malformed records *)

\* the call of createTransitions has returned or thrown
Created == pc = "call" /\ call.fn = "createTransitions" /\ returned # <<>>

\* the array lists the destination
Lists(arr, toState) == \E i \in 1 .. Len(arr) : arr[i] = toState

\* the arrays of strings that the call has stored on the value objects
\* inherit under the name, by key: the elements stored on Object.prototype
\* for '__proto__', the arrays stored on the function or on Object else
StoredUnder(pg, name) ==
  IF name = "__proto__"
  THEN [key \in DOMAIN pg.prototype |->
          LET items == pg.prototype[key].items
              strings == { i \in 1 .. Len(items) : IsStr(items[i]) }
          IN [i \in 1 .. Cardinality(strings) |->
                items[CHOOSE j \in strings :
                        Cardinality({ k \in strings : k <= j }) = i].s]]
  ELSE IF name \in DOMAIN pg.functions THEN pg.functions[name]
  ELSE EmptyObject

\* every record of fewer than 3 fields is in the returned table under the
\* empty symbol key, its first field the source and its last field the
\* destination, the empty string for a record of one field
ShortRecordsStored ==
  \A i \in 1 .. Len(call.list) :
     LET parts == call.list[i]
     IN Len(parts) < 3 =>
          /\ parts[1] \in DOMAIN returned[1].value
          /\ <<"">> \in DOMAIN returned[1].value[parts[1]]
          /\ Lists(returned[1].value[parts[1]][<<"">>],
                   IF Len(parts) = 2 THEN parts[2] ELSE "")

\* C22 as stated: createTransitions raises on no input, and stores every
\* record of fewer than 3 fields under the empty symbol key.
C22_Original ==
  Created => (returned[1].threw = "" /\ ShortRecordsStored)

\* every record of fewer than 3 fields is stored under the empty symbol
\* key, its last field the destination: in the returned table under its
\* source, or, when the source names an inherited property, on the
\* inherited value, the table having no key of that name
ShortRecordsStoredOrInherited ==
  \A i \in 1 .. Len(call.list) :
     LET parts == call.list[i]
         toState == IF Len(parts) = 2 THEN parts[2] ELSE ""
     IN Len(parts) < 3 =>
          IF parts[1] \in ObjectPrototype
          THEN /\ parts[1] \notin DOMAIN returned[1].value
               /\ <<"">> \in DOMAIN StoredUnder(returned[1].inherited, parts[1])
               /\ Lists(StoredUnder(returned[1].inherited, parts[1])[<<"">>], toState)
          ELSE /\ parts[1] \in DOMAIN returned[1].value
               /\ <<"">> \in DOMAIN returned[1].value[parts[1]]
               /\ Lists(returned[1].value[parts[1]][<<"">>], toState)

\* the single symbol of the record names a property that the value looked
\* up under its source has before anything is stored: a property that
\* objects inherit, or, for a source that names an inherited function, a
\* property of functions
NamesProperty(parts) ==
  /\ Len(parts) = 3
  /\ \/ parts[2] \in ObjectPrototype
     \/ /\ parts[1] \in ObjectPrototype \ {"__proto__"}
        /\ parts[2] \in FunctionProperties
     \/ parts[1] = "constructor" /\ parts[2] \in ObjectProperties

\* C22, the behaviour of the code: createTransitions throws a TypeError
\* exactly when the joined symbols of some record name a property that
\* objects inherit, or a property of the function its source names;
\* otherwise it returns a table that holds every record of fewer than 3
\* fields under the empty symbol key, except the records whose source
\* names an inherited property: the table has no key for such a source,
\* and the destinations are stored on the inherited value.
C22_ThrowsOnInheritedKey ==
  Created =>
     /\ returned[1].threw = "TypeError" <=>
          \E i \in 1 .. Len(call.list) : NamesProperty(call.list[i])
     /\ returned[1].threw = "" =>
          /\ ShortRecordsStoredOrInherited
          /\ DOMAIN returned[1].value \cap ObjectPrototype = {}

\* the call has thrown on a transitions field that holds a record of fewer
\* than 3 fields
C22_Witness ==
  /\ Created
  /\ returned[1].threw = "TypeError"
  /\ \E i \in 1 .. Len(call.list) : Len(call.list[i]) < 3

-----------------------------------------------------------------------------
(* Properties of transitions that name undeclared states *)

\* source and destination of the record are declared states
Declared(parts) ==
  RecordSource(parts) \in StateSet /\ RecordDestination(parts) \in StateSet

\* the table of the transitions field without the records that name an
\* undeclared state
DeclaredTable ==
  Heap(createTransitions(SelectSeq(transitionsList, Declared)), EmptyPage)

\* the grid of the candidate of least cost under a table, the first
\* enumerated among equals, trimmed; the empty grid if none passes
LeastCostGrid(table) ==
  LET priced == { <<c, calculateTransitionCost(
                         PositionsRowWise(c.perm, c.rows, c.cols), table)>> :
                    c \in { d \in CandidateSet : CandidateSurvives(d) } }
  IN IF priced = {} THEN <<>>
     ELSE LET first == CHOOSE x \in priced :
                          \A y \in priced \ {x} :
                             \/ x[2] < y[2]
                             \/ x[2] = y[2] /\ CandidateBefore(x[1], y[1])
          IN TrimEmptyRows(CandidateGrid(first[1]))

\* costs, layout, symbols and edge declarations are those of the table
\* without the records that name an undeclared state
AsIfAbsent ==
  /\ \A c \in CandidateSet :
        CandidateCost(c) =
          calculateTransitionCost(PositionsRowWise(c.perm, c.rows, c.cols), DeclaredTable)
  /\ optimalStatePlacement = LeastCostGrid(DeclaredTable)
  /\ \A a \in StateSet : \A b \in StateSet :
        checkTransition(Transitions, a, b) = checkTransition(DeclaredTable, a, b)
  /\ \A k \in 1 .. Len(EdgeDeclarations) :
        /\ EdgeDeclarations[k].from \in StateSet
        /\ EdgeDeclarations[k].to \in StateSet
        /\ EdgeDeclarations[k].label =
             checkTransition(DeclaredTable, EdgeDeclarations[k].from, EdgeDeclarations[k].to)

\* C23 as stated: a transition that names an undeclared state raises no
\* error, adds nothing to any cost and produces no edge declaration;
\* layout and declarations are as if the record were absent.
C23_Original ==
  /\ pc # "raised"
  /\ pc = "done" => AsIfAbsent

\* C23, the behaviour of the code: generate() throws a TypeError exactly
\* when the symbols of a record name a property that objects inherit, or
\* when a candidate is priced and a record leads from a declared state to
\* an undeclared name that objects inherit as a property; otherwise costs,
\* layout and declarations are as if the records that name an undeclared
\* state were absent.
C23_StrayRecordsIgnoredOrThrow ==
  /\ pc = "raised" <=>
       \/ /\ pc # "input"
          /\ \E i \in 1 .. Len(transitionsList) :
                InheritedKey(RecordKey(transitionsList[i]))
       \/ /\ pc \notin {"input", "search"}
          /\ n >= 1 /\ initialState \in StateSet
          /\ \E i \in 1 .. Len(transitionsList) :
                /\ RecordSource(transitionsList[i]) \in StateSet
                /\ RecordDestination(transitionsList[i]) \in ObjectPrototype \ StateSet
  /\ pc = "done" => AsIfAbsent

\* a run has ended with edge declarations on a transitions field that
\* holds a record with an undeclared destination sharing source and symbol
\* with a record between declared states
C23_Witness ==
  /\ pc = "done"
  /\ Len(EdgeDeclarations) >= 2
  /\ \E i \in 1 .. Len(transitionsList) : \E j \in 1 .. Len(transitionsList) :
        /\ Declared(transitionsList[i]) /\ ~ Declared(transitionsList[j])
        /\ RecordSource(transitionsList[i]) = RecordSource(transitionsList[j])
        /\ RecordKey(transitionsList[i]) = RecordKey(transitionsList[j])

-----------------------------------------------------------------------------
(* Properties of the transition cost *)

\* the distance a record spans under the positions of a candidate: rows
\* apart plus columns apart, 0 unless both its ends are placed
RecordDistance(statePositions, parts) ==
  LET a == RecordSource(parts)
      b == RecordDestination(parts)
  IN IF a \in DOMAIN statePositions /\ b \in DOMAIN statePositions
     THEN Abs(statePositions[a][1] - statePositions[b][1])
          + Abs(statePositions[a][2] - statePositions[b][2])
     ELSE 0

\* the distances of the records from position i of the transitions field on
RECURSIVE DistanceFrom(_, _)
DistanceFrom(statePositions, i) ==
  IF i > Len(transitionsList) THEN 0
  ELSE RecordDistance(statePositions, transitionsList[i])
       + DistanceFrom(statePositions, i + 1)

\* C24 as stated: the transition cost of a candidate is the sum, over the
\* destinations listed in the table, that is over the records, of the
\* rows apart plus the columns apart of source and destination when both
\* are placed; a record from a state to itself adds 0, and a record with
\* several symbols adds its distance once.
C24_Original ==
  SearchEnded =>
     /\ pc # "raised"
     /\ \A c \in CandidateSet :
           CandidateCost(c) = DistanceFrom(CandidatePositions(c), 1)

\* C24, the behaviour of the code: calculateTransitionCost throws only on a
\* destination that names an inherited property. When it returns and
\* nothing is stored on Object.prototype, the cost of a candidate is the
\* sum over the records of the rows apart plus the columns apart of source
\* and destination when both are placed: a record from a state to itself
\* adds 0, a record with several symbols adds its distance once. With keys
\* stored on Object.prototype the cost is NaN, for every candidate or for
\* none, or that sum increased by the distances to the destinations stored
\* there, counted for every source.
C24_CostIsSumUnlessInherited ==
  SearchEnded =>
     /\ pc = "raised" => PricingThrows
     /\ \A c \in CandidateSet :
           LET statePositions == CandidatePositions(c)
               cost == CandidateCost(c)
               distances == DistanceFrom(statePositions, 1)
           IN IF costThrows(statePositions, Transitions)
              THEN \E i \in 1 .. Len(transitionsList) :
                      RecordDestination(transitionsList[i]) \in ObjectPrototype
              ELSE /\ page.prototype = EmptyObject => cost = distances
                   /\ cost = NaN \/ cost >= distances
                   /\ cost = NaN <=> CostIsNaN

\* the cost of a candidate is a number above the sum over the records, on
\* a transitions field that holds a record between distinct declared states
C24_Witness ==
  /\ LayoutDone
  /\ \E c \in CandidateSet :
        /\ CandidateCost(c) # NaN
        /\ CandidateCost(c) > DistanceFrom(CandidatePositions(c), 1)
        /\ DistanceFrom(CandidatePositions(c), 1) > 0

-----------------------------------------------------------------------------
(* Properties of the bend direction *)

\* the call of bendDirection has returned
Bent == pc = "call" /\ call.fn = "bendDirection" /\ returned # <<>>

\* both states of the call are in the grid
BothPlaced ==
  /\ \E ij \in Cells(call.grid) : CellAt(call.grid, ij) = call.fromState
  /\ \E ij \in Cells(call.grid) : CellAt(call.grid, ij) = call.toState

\* the cell of a state of the call
CellOf(state) == CHOOSE ij \in Cells(call.grid) : CellAt(call.grid, ij) = state

Opposite(bend) == IF bend = "left" THEN "right" ELSE "left"

\* the bend of the rule for row 0 and of the rule for column 0
RowZeroBend(from, to) == IF from[2] < to[2] THEN "left" ELSE "right"
ColumnZeroBend(from, to) == IF from[1] < to[1] THEN "right" ELSE "left"

\* C25: bendDirection applies the first rule that fits: both states in row
\* 0 (anchor 'above'); both in the last row, the opposite bend (anchor
\* 'below'); both in column 0; both in the last column, the opposite bend;
\* otherwise 'right' if from's column is less than to's, else 'left'. In a
\* grid of one row the rule of row 0 applies.
C25_BendByPriority ==
  (Bent /\ BothPlaced) =>
     LET from == CellOf(call.fromState)
         to == CellOf(call.toState)
         lastRow == Len(call.grid) - 1
         lastCol == Len(call.grid[1]) - 1
         bend == returned[1][1]
         anchor == returned[1][2]
     IN /\ (from[1] = 0 /\ to[1] = 0) =>
             (bend = RowZeroBend(from, to) /\ anchor = "above")
        /\ (from[1] = lastRow /\ to[1] = lastRow /\ lastRow # 0) =>
             (bend = Opposite(RowZeroBend(from, to)) /\ anchor = "below")
        /\ (from[1] # to[1] /\ from[2] = 0 /\ to[2] = 0) =>
             bend = ColumnZeroBend(from, to)
        /\ (from[1] # to[1] /\ from[2] = lastCol /\ to[2] = lastCol /\ lastCol # 0) =>
             bend = Opposite(ColumnZeroBend(from, to))
        /\ ~ ( \/ from[1] = to[1] /\ from[1] \in {0, lastRow}
               \/ from[2] = to[2] /\ from[2] \in {0, lastCol} ) =>
             bend = (IF from[2] < to[2] THEN "right" ELSE "left")

\* the call was made on a grid of one row with the source right of the
\* destination: the rules of row 0 and of the last row disagree
C25_Witness ==
  /\ Bent /\ BothPlaced
  /\ Len(call.grid) = 1
  /\ CellOf(call.fromState)[2] > CellOf(call.toState)[2]
  /\ returned[1] = <<"right", "above">>

-----------------------------------------------------------------------------
(* Properties of the stored bend direction *)

\* for a mutual pair, the declaration whose source is earlier in the state
\* list comes first and carries the bend bendDirection gives for it; the
\* declaration of the reverse direction carries the same bend and the
\* anchor bendDirection gives for the reverse direction
FirstDirectionDecides ==
  \A a \in StateSet : \A b \in StateSet :
     (Mutual(a, b) /\ IndexOf(a) < IndexOf(b)) =>
        \A k \in EdgeDecls(a, b) : \A l \in EdgeDecls(b, a) :
           /\ k < l
           /\ code[k].kind = "bent" /\ code[l].kind = "bent"
           /\ code[k].bend = bendDirection(a, b, optimalStatePlacement)[1]
           /\ code[k].anchor = bendDirection(a, b, optimalStatePlacement)[2]
           /\ code[l].bend = code[k].bend
           /\ code[l].anchor = bendDirection(b, a, optimalStatePlacement)[2]

\* a bend direction that is stored for a pair is not changed
StoredBendKept ==
  \A i \in 1 .. Len(bendDirectionArray) : \A j \in 1 .. Len(bendDirectionArray[i]) :
     bendDirectionArray[i][j] # "" => bendDirectionArray'[i][j] = bendDirectionArray[i][j]

\* C26: of a mutual pair the direction whose source is earlier in the state
\* list is drawn first; the reverse direction reuses the bend stored for
\* the pair while its label anchor is that of its own direction; the bend
\* stored for a pair never changes within the call.
C26_StoredBendReused ==
  /\ [](pc = "done" => FirstDirectionDecides)
  /\ [][StoredBendKept]_vars

\* both directions of a mutual pair were drawn; the second carries a bend
\* that bendDirection does not give for it, and the anchors of the two
\* directions differ
C26_Witness ==
  /\ pc = "done"
  /\ \E a \in StateSet : \E b \in StateSet :
        /\ Mutual(a, b) /\ IndexOf(a) < IndexOf(b)
        /\ \E k \in EdgeDecls(a, b) : \E l \in EdgeDecls(b, a) :
              /\ code[l].bend # bendDirection(b, a, optimalStatePlacement)[1]
              /\ code[l].anchor # code[k].anchor
              /\ bendDirectionArray[IndexOf(b)][IndexOf(a)] = code[k].bend

-----------------------------------------------------------------------------
(* Properties of the shape of the grids *)

\* the rows of a grid one after the other
RECURSIVE Flatten(_)
Flatten(grid) == IF grid = <<>> THEN <<>> ELSE Head(grid) \o Flatten(Tail(grid))

\* every row of the grid has the given number of cells
Rectangular(grid, cols) == \A r \in 1 .. Len(grid) : Len(grid[r]) = cols

\* read row by row, the grid holds the states of the permutation in their
\* order, followed by at most one empty cell
FilledRowMajor(grid, perm) ==
  Flatten(grid) = perm \/ Flatten(grid) = perm \o <<null>>

\* every row and every cell of column 0 of the grid holds a state
RowsAndFirstColumnOccupied(grid) ==
  \A r \in 1 .. Len(grid) : RowOccupied(grid[r]) /\ grid[r][1] # null

\* C27: every candidate grid is rectangular and filled row by row, with at
\* most one empty cell, the last of the last row; every row and every cell
\* of column 0 is occupied; the returned grid is the best grid as built,
\* the trim of all-empty rows removing nothing.
C27_GridsFilledRowMajor ==
  (pc = "done" /\ n >= 1) =>
     /\ \A c \in CandidateSet :
          /\ Len(CandidateGrid(c)) = c.rows
          /\ Rectangular(CandidateGrid(c), c.cols)
          /\ FilledRowMajor(CandidateGrid(c), c.perm)
          /\ RowsAndFirstColumnOccupied(CandidateGrid(c))
     /\ optimalStatePlacement = bestGrid
     /\ RowsAndFirstColumnOccupied(optimalStatePlacement)

\* a grid with an empty cell was returned
C27_Witness ==
  /\ pc = "done"
  /\ optimalStatePlacement # <<>>
  /\ \E ij \in Cells(optimalStatePlacement) : CellAt(optimalStatePlacement, ij) = null
  /\ \E c \in CandidateSet : Flatten(CandidateGrid(c)) = c.perm

-----------------------------------------------------------------------------
(* Properties of the existence of a layout *)

\* the candidates of the single-column shape
ColumnCandidates == { c \in CandidateSet : c.rows = n /\ c.cols = 1 }

\* C28 as stated: for a non-empty list of distinct states the search
\* returns a non-empty grid if and only if the initial state is in the
\* list, for every accepting set, every transitions field and either
\* value of accToRight.
C28_Original ==
  (n >= 1 /\ pc \notin {"input", "search"}) =>
     ((LayoutDone /\ optimalStatePlacement # <<>>) <=> initialState \in StateSet)

\* C28, the behaviour of the code: for every accepting set and either
\* value of accToRight a candidate of the n x 1 shape passes the filters
\* when the initial state is in the list. The search then returns a
\* non-empty grid unless the transitions prevent it: it throws when
\* calculateTransitionCost throws, and it returns the empty grid when the
\* cost of the candidates is NaN. With the initial state not in the list
\* it returns the empty grid.
C28_GridIffInitialDeclaredAndPriced ==
  n >= 1 =>
     /\ LayoutDone =>
          /\ optimalStatePlacement # <<>> <=>
               (initialState \in StateSet /\ ~ CostIsNaN)
          /\ ~ (initialState \in StateSet /\ PricingThrows)
     /\ pc = "raised" => (initialState \in StateSet /\ PricingThrows)
     /\ (pc # "input" /\ initialState \in StateSet) =>
          \E c \in ColumnCandidates : CandidateSurvives(c)

\* the empty grid was returned under the accepting-state convention for
\* an initial state in the list, a candidate of the single-column shape
\* having passed the filters
C28_Witness ==
  /\ LayoutDone /\ n >= 3 /\ ByArrow
  /\ initialState \in StateSet
  /\ optimalStatePlacement = <<>>
  /\ acceptingStatesArray # {}
  /\ \E c \in ColumnCandidates : CandidateSurvives(c)
  /\ \E c \in CandidateSet : InitialLeftmost(CandidateGrid(c)) /\ ~ CandidateSurvives(c)

-----------------------------------------------------------------------------
(* Properties of the synchronisation with the URL *)

\* the positions in the log of the values the user typed into a field
TypedInto(field) == { i \in 1 .. Len(edits) : edits[i][1] = field }

\* the user has typed into the field
Typed(field) == TypedInto(field) # {}

\* the value the user typed into the field last
LastTyped(field) ==
  edits[CHOOSE i \in TypedInto(field) : \A j \in TypedInto(field) : j <= i][2]

\* the field holds the non-empty value the user typed into it last
KeepsTyped(field) ==
  (Typed(field) /\ LastTyped(field) # EmptyText) =>
     fieldValues[field] = LastTyped(field)

\* C29 as stated: each of the four input fields, once set by the user to a
\* non-empty value, holds that value until the user edits it again,
\* whichever way the edits, the two timers and the location effect
\* interleave.
C29_Original == \A f \in InputFields : KeepsTyped(f)

\* the queries the location effect may have run on last: the present one and
\* those of the last renders
SearchesSeen ==
  {locationSearch, rendered.search}
    \cup { effects[i].search : i \in { j \in 1 .. Len(effects) : effects[j] # BeforeMount } }

\* C29: an input field holds the value the user typed into it last or the
\* value the location effect read from location.search, or, until the
\* effects of the first render have run, the default of useState. The
\* query is the one the page was opened with or the one updateURL wrote
\* from the field values of the render that set the render timer; that
\* render may be older than the last edit, and then the edit is lost.
C29_TypedOrFromQuery ==
  pc = "component" =>
     \A f \in InputFields :
        \/ Typed(f) /\ fieldValues[f] = LastTyped(f)
        \/ \E q \in SearchesSeen : fieldValues[f] = paramOrDefault(q, f)
        \/ effects = <<BeforeMount>> /\ fieldValues[f] = DefaultValues[f]

\* no timer is pending, and an input field holds the value the user typed
\* before the one typed last: the last edit was replaced by the older
\* snapshot of the render timer
C29_Witness ==
  /\ pc = "component"
  /\ generateTimers = {} /\ renderTimers = {} /\ ReactIdle
  /\ Len(edits) = 2
  /\ \E f \in InputFields \cap EditedFields :
        /\ edits[1][1] = f /\ edits[2][1] = f
        /\ edits[2][2] # EmptyText
        /\ edits[1][2] # edits[2][2]
        /\ fieldValues[f] = edits[1][2]
        /\ locationSearch # <<>>
        /\ locationSearch[f] = edits[1][2]

-----------------------------------------------------------------------------
(* Properties of the end of the synchronisation *)

\* no timer is pending and React has nothing left to run
Quiescent == generateTimers = {} /\ renderTimers = {} /\ ReactIdle

\* the emitted code was generated from the field values of the component
CodeCurrent == generatedFrom = fieldValues

\* the query of the URL encodes the values of the four input fields
QueryCurrent == locationSearch = statesToURL(fieldValues)

\* the component is at rest with the code and the query of its fields
Settled == Quiescent /\ CodeCurrent /\ QueryCurrent

\* C30 as stated: when the timers of the browser run, the mounted
\* component comes to rest after finitely many firings, and stays at rest:
\* no timer is pending, the emitted code was generated from the field values
\* then held, and the query of the URL encodes those values.
C30_Original == <>[](pc = "component" => Settled)

\* the user has typed neither a text on which generate() throws nor into the
\* code editor
OnlyGeneratedCode ==
  \A i \in 1 .. Len(edits) :
     /\ edits[i][1] # "tikzCode"
     /\ edits[i] # <<"transitions", ThrowingText>>

\* C30: when React and the timers of the browser run, the mounted component
\* comes to rest after finitely many firings and stays at rest with nothing
\* pending; the emitted code is the one of the field values then held if
\* the user has typed no text on which generate() throws and has not typed
\* into the code editor; the query of the URL may be the one of older
\* values.
C30_SettlesWithCurrentCode ==
  <>[](pc = "component" =>
         /\ Quiescent
         /\ OnlyGeneratedCode => CodeCurrent)

\* the component is at rest after the user typed a text on which generate()
\* throws: the emitted code and the query are those of older field values
C30_Witness ==
  /\ pc = "component"
  /\ Quiescent
  /\ Typed("transitions") /\ LastTyped("transitions") = ThrowingText
  /\ generateThrows(fieldValues)
  /\ generatedFrom # <<>> /\ ~ CodeCurrent
  /\ locationSearch # <<>> /\ ~ QueryCurrent

====
